---- MODULE Spec2Model ----
(***************************************************************************)
(* Graph state synchronisation of kube-universe: the delta tracker         *)
(* (package delta), the equality rules it diffs with, and the client       *)
(* mirror that applies the tracker's messages (web/js/websocket.js).       *)
(***************************************************************************)
EXTENDS Naturals, Integers, Sequences, FiniteSets, TLC

VARIABLES
    previousNodes,   \* DeltaTracker.previousNodes : id -> Node
    previousLinks,   \* DeltaTracker.previousLinks : linkKey -> Link
    op,              \* the operation that produced this state
    arg,             \* the graph handed to the last GenerateDelta call
    ret,             \* what the last GenerateDelta call returned
    before,          \* the tracker as it was when the last operation began
    held,            \* the snapshot the tracker holds as previous state (history)
    originalData,    \* the client's mirror (websocket.js originalData)
    rtPhase,         \* position of the round-trip run
    eqOp,            \* equality harness: the function applied
    eqA,             \* equality harness: first argument
    eqB,             \* equality harness: second argument
    eqRet,           \* equality harness: the value returned
    clients,         \* Hub.clients: the registered consumers
    send,            \* Client.send of every consumer: buffered messages, closed or not
    boot,            \* position of every consumer's sendInitialData goroutine
    rp,              \* position of every consumer's readPump
    wp,              \* position of every consumer's writePump
    pending,         \* the ticker goroutine: idle, or blocked on h.broadcast with a message
    ticks,           \* ticks handled by the ticker goroutine
    lastTick,        \* what the most recent tick did (history)
    enqueued,        \* per consumer, the messages put on its queue and by whom (history)
    taken,           \* per consumer, the messages its writePump received (history)
    panicked,        \* the panic that ended the hub process, "" while it runs
    scene,           \* the page: what graph.graphData() holds
    currentFilteredData,      \* the page: cached copy of the last visible subgraph
    hiddenResourceTypes,      \* the page: node types switched off in the legend
    hiddenRelationshipTypes,  \* the page: relationships switched off in the legend
    isUpdatingFromToggle,     \* the page: a legend toggle is in progress
    applyTimers,     \* the page: pending setTimeout callbacks of applyFilterAndUpdate
    toggleTimeout,   \* the page: the pending callback that clears isUpdatingFromToggle
    handled,         \* the page: the last event handled and the path it took (history)
    isInitialized,   \* the page: a frame has been parsed since the page was loaded
    ws,              \* the socket: state of the current WebSocket
    reconnectInterval,        \* the socket: delay of the next reconnect attempt, ms
    reconnectTimers, \* the socket: pending setTimeout(connectWebSocket) callbacks
    closes,          \* the socket: the delay of every reconnect scheduled, 0 for every open (history)
    requests         \* the socket: frames the page has sent (no handler calls ws.send)

trackerVars == <<previousNodes, previousLinks, op, arg, ret, before, held>>
clientVars == <<originalData, rtPhase>>
eqVars == <<eqOp, eqA, eqB, eqRet>>
hubVars == <<clients, send, boot, rp, wp, pending, ticks, lastTick, enqueued, taken,
             panicked>>
pageVars == <<scene, currentFilteredData, hiddenResourceTypes, hiddenRelationshipTypes,
              isUpdatingFromToggle, applyTimers, toggleTimeout, handled, isInitialized>>
socketVars == <<ws, reconnectInterval, reconnectTimers, closes, requests>>
vars == <<previousNodes, previousLinks, op, arg, ret, before, held,
          originalData, rtPhase, eqOp, eqA, eqB, eqRet,
          clients, send, boot, rp, wp, pending, ticks, lastTick, enqueued, taken,
          panicked,
          scene, currentFilteredData, hiddenResourceTypes, hiddenRelationshipTypes,
          isUpdatingFromToggle, applyTimers, toggleTimeout, handled, isInitialized,
          ws, reconnectInterval, reconnectTimers, closes, requests>>

(***************************************************************************)
(* Bounds of the model.                                                    *)
(***************************************************************************)
\* longest link slice of a snapshot
MaxLinks == 2
\* longest array held under one ResourceInfo key in the equality harness
MaxLen == 2
\* capacity of a consumer's send queue in the hub runs (256 in HandleWebSocket)
QueueCap == 2
\* ticks the ticker goroutine handles in a hub run
MaxTicks == 3
\* filter timers of the page that can be pending at once
MaxTimers == 1
\* longest link collection of the mirror in a page run
MaxMirrorLinks == 2
\* opens and closes of the connection in a socket run
MaxCloses == 8

(***************************************************************************)
(* Generic helpers.                                                        *)
(***************************************************************************)
Range(s) == {s[i] : i \in DOMAIN s}

Max(S) == CHOOSE x \in S : \A y \in S : y <= x

\* every enumeration of a finite set as a sequence (Go map iteration order)
RECURSIVE Perms(_)
Perms(S) ==
    IF S = {} THEN {<<>>}
    ELSE UNION {{<<x>> \o p : p \in Perms(S \ {x})} : x \in S}

\* the sequences without repetition over S of length at most n
RECURSIVE SeqsNoRep(_, _)
SeqsNoRep(S, n) ==
    IF n = 0 THEN {<<>>}
    ELSE {<<>>} \cup UNION {{<<x>> \o p : p \in SeqsNoRep(S \ {x}, n - 1)} : x \in S}

\* all sequences over S of length at most n
RECURSIVE SeqsUpTo(_, _)
SeqsUpTo(S, n) ==
    IF n = 0 THEN {<<>>}
    ELSE {<<>>} \cup {<<x>> \o p : x \in S, p \in SeqsUpTo(S, n - 1)}

EmptyMap == [k \in {} |-> ""]

\* len(m) of a Go map
mapLen(m) == Cardinality(DOMAIN m)

\* m[k] of a Go map[string]string: the zero value "" for a missing key
mapGet(m, k) == IF k \in DOMAIN m THEN m[k] ELSE ""

(***************************************************************************)
(* Values of the ResourceInfo bag (Go interface{}), tagged by dynamic type.*)
(***************************************************************************)
Str(s) == [t |-> "string", s |-> s]
Num(n) == [t |-> "float64", n |-> n]
StrSlice(q) == [t |-> "[]string", ss |-> q]
IfaceSlice(q) == [t |-> "[]interface{}", is |-> q]

\* fmt.Sprintf("%v", item) for the scalar element types
Sprintv(x) ==
    IF x.t = "string" THEN x.s
    ELSE IF x.t = "float64" THEN ToString(x.n)
    ELSE "?"

\* reflect.DeepEqual on tagged values: same dynamic type and same contents
DeepEqual(a, b) == a = b

(***************************************************************************)
(* Equality rules of the tracker.                                          *)
(***************************************************************************)
freqMap(s) == [x \in Range(s) |-> Cardinality({i \in DOMAIN s : s[i] = x})]

stringSlicesEqualIgnoreOrder(a, b) ==
    IF Len(a) # Len(b) THEN FALSE
    ELSE freqMap(a) = freqMap(b)

interfaceSlicesEqualIgnoreOrder(a, b) ==
    IF Len(a) # Len(b) THEN FALSE
    ELSE stringSlicesEqualIgnoreOrder([i \in 1..Len(a) |-> Sprintv(a[i])],
                                      [i \in 1..Len(b) |-> Sprintv(b[i])])

\* faulty variant: arrays are compared in order
arraysEqualIgnoreOrder_ordered(a, b) == DeepEqual(a, b)

arraysEqualIgnoreOrder(a, b) ==
    IF a.t = "[]string" /\ b.t = "[]string"
    THEN stringSlicesEqualIgnoreOrder(a.ss, b.ss)
    ELSE IF a.t = "[]interface{}" /\ b.t = "[]interface{}"
    THEN interfaceSlicesEqualIgnoreOrder(a.is, b.is)
    ELSE DeepEqual(a, b)

orderIgnoredArrayFields ==
    {"key_names", "conditions", "external_ips", "image_pull_secrets", "volumes",
     "containers", "ports", "rules", "hosts", "secrets"}

resourceInfoEqual(a, b) ==
    IF mapLen(a) # mapLen(b) THEN FALSE
    ELSE \A key \in DOMAIN a :
            /\ key \in DOMAIN b
            /\ IF key \in orderIgnoredArrayFields
               THEN arraysEqualIgnoreOrder(a[key], b[key])
               ELSE DeepEqual(a[key], b[key])

mapsEqual(a, b) ==
    IF mapLen(a) # mapLen(b) THEN FALSE
    ELSE \A k \in DOMAIN a : mapGet(b, k) = a[k]

\* faulty variant: Age is left out of the comparison
nodesEqual_ageIgnored(a, b) ==
    IF \/ a.Id # b.Id \/ a.Name # b.Name \/ a.Type # b.Type
       \/ a.Namespace # b.Namespace \/ a.Status # b.Status
       \/ a.StatusMessage # b.StatusMessage \/ a.CreationTime # b.CreationTime
    THEN FALSE
    ELSE IF ~mapsEqual(a.Labels, b.Labels) THEN FALSE
    ELSE IF ~mapsEqual(a.Annotations, b.Annotations) THEN FALSE
    ELSE resourceInfoEqual(a.ResourceInfo, b.ResourceInfo)

nodesEqual(a, b) ==
    IF \/ a.Id # b.Id \/ a.Name # b.Name \/ a.Type # b.Type
       \/ a.Namespace # b.Namespace \/ a.Status # b.Status
       \/ a.StatusMessage # b.StatusMessage \/ a.CreationTime # b.CreationTime
       \/ a.Age # b.Age
    THEN FALSE
    ELSE IF ~mapsEqual(a.Labels, b.Labels) THEN FALSE
    ELSE IF ~mapsEqual(a.Annotations, b.Annotations) THEN FALSE
    ELSE resourceInfoEqual(a.ResourceInfo, b.ResourceInfo)

(***************************************************************************)
(* The snapshots handed to the tracker.                                    *)
(***************************************************************************)
MkNode(id, type, status, keys) ==
    [Id |-> id, Name |-> id, Type |-> type, Namespace |-> "default",
     Status |-> status, StatusMessage |-> "", CreationTime |-> "t0", Age |-> "5m",
     Labels |-> ("app" :> "web"), Annotations |-> EmptyMap,
     ResourceInfo |-> ("key_names" :> IfaceSlice(keys)) @@ ("data_count" :> Num(2))]

MkLink(s, t, r) == [Source |-> s, Target |-> t, Value |-> 0, Relationship |-> r]

KeysAB == <<Str("k1"), Str("k2")>>
KeysBA == <<Str("k2"), Str("k1")>>

\* the variants of node "a": as collected, with another Status, with key_names permuted
NodesA ==
    {MkNode("a", "configmap", "Active", KeysAB),
     MkNode("a", "configmap", "Terminating", KeysAB),
     MkNode("a", "configmap", "Active", KeysBA)}

NodesAA == {MkNode("a-a", "pod", "Running", <<>>)}

\* node slices of a snapshot: ids are unique within a snapshot (the collector
\* builds the slice from a map keyed by id)
NodeSeqs ==
    {<<>>} \cup {<<n>> : n \in NodesA \cup NodesAA}
           \cup {<<n, m>> : n \in NodesA, m \in NodesAA}

\* links between "a" and "a-a"; ("a","a-a") and ("a-a","a") share the key "a-a-a"
LinkUniverse ==
    {MkLink("a", "a-a", "depends_on"), MkLink("a", "a-a", "contains"),
     MkLink("a-a", "a", "depends_on")}

\* link slices of a snapshot: at most one link per (Source, Target) pair (the
\* collector derives the relationship from the kinds of the two endpoints)
LinkSeqs ==
    {ls \in SeqsNoRep(LinkUniverse, MaxLinks) :
        \A i, j \in DOMAIN ls :
            (ls[i].Source = ls[j].Source /\ ls[i].Target = ls[j].Target) => i = j}

MkGraph(ns, ls) ==
    [isNil |-> FALSE, NodesNil |-> FALSE, LinksNil |-> FALSE, Nodes |-> ns, Links |-> ls]

EmptyGraph == MkGraph(<<>>, <<>>)

ValidGraphs == {MkGraph(ns, ls) : ns \in NodeSeqs, ls \in LinkSeqs}

\* a nil *Graph, a Graph with nil Nodes, a Graph with nil Links
InvalidGraphs ==
    {[isNil |-> TRUE, NodesNil |-> TRUE, LinksNil |-> TRUE, Nodes |-> <<>>, Links |-> <<>>],
     [isNil |-> FALSE, NodesNil |-> TRUE, LinksNil |-> FALSE, Nodes |-> <<>>, Links |-> <<>>],
     [isNil |-> FALSE, NodesNil |-> FALSE, LinksNil |-> TRUE, Nodes |-> <<>>, Links |-> <<>>]}

Graphs == ValidGraphs \cup InvalidGraphs

(***************************************************************************)
(* The delta tracker.                                                      *)
(***************************************************************************)
linkKey(link) == link.Source \o "-" \o link.Target

\* for _, node := range nodes { m[node.Id] = node }: the last entry of an id wins
nodeMap(nodes) ==
    [id \in {nodes[i].Id : i \in DOMAIN nodes} |->
        nodes[Max({i \in DOMAIN nodes : nodes[i].Id = id})]]

\* for _, link := range links { m[linkKey] = link }: the last entry of a key wins
linkMap(links) ==
    [k \in {linkKey(links[i]) : i \in DOMAIN links} |->
        links[Max({i \in DOMAIN links : linkKey(links[i]) = k})]]

\* faulty variant: the link map is not stored
updatePreviousState_noLinks(graph) ==
    [nodes |-> nodeMap(graph.Nodes), links |-> linkMap(<<>>)]

updatePreviousState(graph) ==
    [nodes |-> nodeMap(graph.Nodes), links |-> linkMap(graph.Links)]

LinkRef(link) == [Source |-> link.Source, Target |-> link.Target]

\* the current nodes that are new or not equal to the previous node of their id
newOrUpdatedNodes(prevNodes, currentNodes) ==
    {currentNodes[id] : id \in
        {i \in DOMAIN currentNodes :
            IF i \notin DOMAIN prevNodes THEN TRUE
            ELSE ~nodesEqual(prevNodes[i], currentNodes[i])}}

\* faulty variant: the two maps are swapped
removedNodes_swapped(prevNodes, currentNodes) == DOMAIN currentNodes \ DOMAIN prevNodes

removedNodes(prevNodes, currentNodes) == DOMAIN prevNodes \ DOMAIN currentNodes

\* the current links whose key the previous state does not hold
newLinks(prevLinks, currentLinks) ==
    {currentLinks[k] : k \in DOMAIN currentLinks \ DOMAIN prevLinks}

removedLinks(prevLinks, currentLinks) ==
    {LinkRef(prevLinks[k]) : k \in DOMAIN prevLinks \ DOMAIN currentLinks}

DeltaUpdate(type, nodes, links, rnodes, rlinks) ==
    [kind |-> "update", Type |-> type, Nodes |-> nodes, Links |-> links,
     RemovedNodes |-> rnodes, RemovedLinks |-> rlinks]

NilRet ==
    [kind |-> "nil", Type |-> "", Nodes |-> <<>>, Links |-> <<>>,
     RemovedNodes |-> <<>>, RemovedLinks |-> <<>>]

ErrRet ==
    [kind |-> "error", Type |-> "", Nodes |-> <<>>, Links |-> <<>>,
     RemovedNodes |-> <<>>, RemovedLinks |-> <<>>]

NoRet ==
    [kind |-> "none", Type |-> "", Nodes |-> <<>>, Links |-> <<>>,
     RemovedNodes |-> <<>>, RemovedLinks |-> <<>>]

\* no snapshot is held; reset tells whether a Reset discarded the snapshot g
NotHeld == [valid |-> FALSE, g |-> EmptyGraph, reset |-> FALSE]

\* faulty variant: the link collection is not checked
invalidGraph_linksUnchecked(g) == g.isNil \/ g.NodesNil

\* currentGraph == nil || currentGraph.Nodes == nil || currentGraph.Links == nil
invalidGraph(g) == g.isNil \/ g.NodesNil \/ g.LinksNil

\* len(dt.previousNodes) == 0 && len(dt.previousLinks) == 0
firstTime(prevNodes, prevLinks) == mapLen(prevNodes) = 0 /\ mapLen(prevLinks) = 0

\* the updates GenerateDelta can return for a valid graph, one per iteration order
deltaResults(prevNodes, prevLinks, g) ==
    IF firstTime(prevNodes, prevLinks)
    THEN {DeltaUpdate("full", g.Nodes, g.Links, <<>>, <<>>)}
    ELSE LET currentNodes == nodeMap(g.Nodes)
             currentLinks == linkMap(g.Links)
         IN {IF Len(ns) > 0 \/ Len(ls) > 0 \/ Len(rn) > 0 \/ Len(rl) > 0
             THEN DeltaUpdate("delta", ns, ls, rn, rl)
             ELSE NilRet :
                ns \in Perms(newOrUpdatedNodes(prevNodes, currentNodes)),
                ls \in Perms(newLinks(prevLinks, currentLinks)),
                rn \in Perms(removedNodes(prevNodes, currentNodes)),
                rl \in Perms(removedLinks(prevLinks, currentLinks))}

TrackerInit ==
    /\ previousNodes = nodeMap(<<>>)
    /\ previousLinks = linkMap(<<>>)
    /\ op = "NewDeltaTracker"
    /\ arg = EmptyGraph
    /\ ret = NoRet
    /\ before = [nodes |-> nodeMap(<<>>), links |-> linkMap(<<>>), held |-> NotHeld]
    /\ held = NotHeld

\* faulty variant: the previous state is replaced only when an update is returned
GenerateDelta_keptOnNil(g) ==
    /\ op' = "GenerateDelta"
    /\ arg' = g
    /\ before' = [nodes |-> previousNodes, links |-> previousLinks, held |-> held]
    /\ IF invalidGraph(g)
       THEN /\ ret' = ErrRet
            /\ UNCHANGED <<previousNodes, previousLinks, held>>
       ELSE /\ ret' \in deltaResults(previousNodes, previousLinks, g)
            /\ IF ret'.kind = "update"
               THEN /\ previousNodes' = updatePreviousState(g).nodes
                    /\ previousLinks' = updatePreviousState(g).links
                    /\ held' = [valid |-> TRUE, g |-> g, reset |-> FALSE]
               ELSE UNCHANGED <<previousNodes, previousLinks, held>>

GenerateDelta(g) ==
    /\ op' = "GenerateDelta"
    /\ arg' = g
    /\ before' = [nodes |-> previousNodes, links |-> previousLinks, held |-> held]
    /\ IF invalidGraph(g)
       THEN /\ ret' = ErrRet
            /\ UNCHANGED <<previousNodes, previousLinks, held>>
       ELSE /\ ret' \in deltaResults(previousNodes, previousLinks, g)
            /\ previousNodes' = updatePreviousState(g).nodes
            /\ previousLinks' = updatePreviousState(g).links
            /\ held' = [valid |-> TRUE, g |-> g, reset |-> FALSE]

\* faulty variant: only the node map is replaced
Reset_keepsLinks ==
    /\ op' = "Reset"
    /\ previousNodes' = nodeMap(<<>>)
    /\ previousLinks' = previousLinks
    /\ before' = [nodes |-> previousNodes, links |-> previousLinks, held |-> held]
    /\ held' = [valid |-> FALSE, g |-> held.g, reset |-> TRUE]
    /\ ret' = NoRet
    /\ arg' = EmptyGraph

Reset ==
    /\ op' = "Reset"
    /\ previousNodes' = nodeMap(<<>>)
    /\ previousLinks' = linkMap(<<>>)
    /\ before' = [nodes |-> previousNodes, links |-> previousLinks, held |-> held]
    /\ held' = [valid |-> FALSE, g |-> held.g, reset |-> TRUE]
    /\ ret' = NoRet
    /\ arg' = EmptyGraph

\* GetStats
GetStats(prevNodes, prevLinks) ==
    [previous_nodes |-> mapLen(prevNodes), previous_links |-> mapLen(prevLinks)]

\* a call of GetStats: the two counts are returned, nothing is written
CallGetStats ==
    /\ op' = "GetStats"
    /\ arg' = EmptyGraph
    /\ before' = [nodes |-> previousNodes, links |-> previousLinks, held |-> held]
    /\ ret' = ("stats" :> GetStats(previousNodes, previousLinks)) @@ NoRet
    /\ UNCHANGED <<previousNodes, previousLinks, held>>

(***************************************************************************)
(* The wire message and the client mirror.                                 *)
(***************************************************************************)
\* the node ids that occur in the snapshots of the model
Ids == {"a", "a-a", "b"}

\* a link endpoint that holds the node object of an id instead of the id: the
\* force engine replaces the endpoint ids of the link objects it is given
NodeObject(id) == "{" \o id \o "}"

isObject(x) == x \in {NodeObject(id) : id \in Ids}

\* link.source.id || link.source
endpointId(x) == IF isObject(x) THEN CHOOSE id \in Ids : NodeObject(id) = x ELSE x

\* `${link.source}`
template(x) == IF isObject(x) THEN "[object Object]" ELSE x

\* `${l.source}-${l.target}`
templateKey(l) == template(l.Source) \o "-" \o template(l.Target)

\* `${l.source.id || l.source}-${l.target.id || l.target}`
idKey(l) == endpointId(l.Source) \o "-" \o endpointId(l.Target)

\* DeltaUpdate.ToJSON: "type" is always written, the four slices are omitempty
ToJSON(du) ==
    [type |-> du.Type, nodes |-> du.Nodes, links |-> du.Links,
     removed_nodes |-> du.RemovedNodes, removed_links |-> du.RemovedLinks,
     present |-> {"type"}
         \cup (IF Len(du.Nodes) > 0 THEN {"nodes"} ELSE {})
         \cup (IF Len(du.Links) > 0 THEN {"links"} ELSE {})
         \cup (IF Len(du.RemovedNodes) > 0 THEN {"removed_nodes"} ELSE {})
         \cup (IF Len(du.RemovedLinks) > 0 THEN {"removed_links"} ELSE {})]

\* a null or undefined originalData, the value that !originalData tests for
NullMirror == [null |-> TRUE, keys |-> {}, type |-> "", nodes |-> <<>>, links |-> <<>>]

\* an object {nodes, links}
MkMirror(nodes, links) ==
    [null |-> FALSE, keys |-> {"nodes", "links"}, type |-> "", nodes |-> nodes, links |-> links]

\* JSON.parse(JSON.stringify(newData)) of a message
copyOfMessage(data) ==
    [null |-> FALSE, keys |-> data.present \ {"removed_nodes", "removed_links"},
     type |-> data.type,
     nodes |-> IF "nodes" \in data.present THEN data.nodes ELSE <<>>,
     links |-> IF "links" \in data.present THEN data.links ELSE <<>>]

\* faulty variant: no message is taken for the mirrored data
identical_never(mirror, newData) == FALSE

\* originalData && JSON.stringify(originalData) === JSON.stringify(newData)
identical(mirror, newData) == ~mirror.null /\ mirror = copyOfMessage(newData)

\* updateGraphData, as far as originalData goes
updateGraphData(mirror, newData) ==
    IF identical(mirror, newData)
    THEN mirror
    ELSE copyOfMessage(newData)

\* Object.assign(existingNode, newNode)
objectAssign(existingNode, newNode) == newNode @@ existingNode

\* deltaData.nodes.forEach: update the mapped node of the id, else push; nodeMap
\* is built once from the first k entries and is not extended by the pushes
RECURSIVE upsertNodes(_, _, _)
upsertNodes(nodes, newNodes, k) ==
    IF newNodes = <<>> THEN nodes
    ELSE LET newNode == Head(newNodes)
             at == {i \in 1..k : nodes[i].Id = newNode.Id}
         IN upsertNodes(
                IF at # {}
                THEN [nodes EXCEPT ![Max(at)] = objectAssign(nodes[Max(at)], newNode)]
                ELSE Append(nodes, newNode),
                Tail(newNodes), k)

\* deltaData.links.forEach: push unless the key was in the mirror before the loop
RECURSIVE addLinks(_, _, _)
addLinks(links, newLinks_, existingLinkKeys) ==
    IF newLinks_ = <<>> THEN links
    ELSE addLinks(
            IF templateKey(Head(newLinks_)) \notin existingLinkKeys
            THEN Append(links, Head(newLinks_))
            ELSE links,
            Tail(newLinks_), existingLinkKeys)

has(deltaData, field, value) == field \in deltaData.present /\ Len(value) > 0

\* applyDeltaToOriginalData, "Remove nodes" and "Remove specific links": what is
\* left of the mirror's collections before anything is added
removeFromMirror(mirror, deltaData) ==
    LET removedNodeIds ==
            IF has(deltaData, "removed_nodes", deltaData.removed_nodes)
            THEN Range(deltaData.removed_nodes) ELSE {}
        nodes1 == SelectSeq(mirror.nodes, LAMBDA n : n.Id \notin removedNodeIds)
        links1 == SelectSeq(mirror.links,
                      LAMBDA l : l.Source \notin removedNodeIds /\ l.Target \notin removedNodeIds)
        removedLinkKeys ==
            IF has(deltaData, "removed_links", deltaData.removed_links)
            THEN {templateKey(r) : r \in Range(deltaData.removed_links)} ELSE {}
        links2 == SelectSeq(links1, LAMBDA l : templateKey(l) \notin removedLinkKeys)
    IN [nodes |-> nodes1, links |-> links2]

\* applyDeltaToOriginalData on a mirror that has both collections
applyDeltaToOriginalData(mirror, deltaData) ==
    LET left == removeFromMirror(mirror, deltaData)
        nodes3 ==
            IF has(deltaData, "nodes", deltaData.nodes)
            THEN upsertNodes(left.nodes, deltaData.nodes, Len(left.nodes)) ELSE left.nodes
        links4 ==
            IF has(deltaData, "links", deltaData.links)
            THEN addLinks(left.links, deltaData.links,
                          {templateKey(l) : l \in Range(left.links)})
            ELSE left.links
    IN MkMirror(nodes3, links4)

\* applyDeltaUpdate, as far as originalData goes; spreading an absent collection
\* throws, which ws.onmessage catches, leaving originalData as it was
applyDeltaUpdate(mirror, deltaData) ==
    IF mirror.null
    THEN updateGraphData(mirror,
            [type |-> "", present |-> {"nodes", "links"},
             nodes |-> IF "nodes" \in deltaData.present THEN deltaData.nodes ELSE <<>>,
             links |-> IF "links" \in deltaData.present THEN deltaData.links ELSE <<>>,
             removed_nodes |-> <<>>, removed_links |-> <<>>])
    ELSE IF ~({"nodes", "links"} \subseteq mirror.keys) THEN mirror
    ELSE applyDeltaToOriginalData(mirror, deltaData)

\* ws.onmessage
onmessage(mirror, data) ==
    IF data.type = "delta" THEN applyDeltaUpdate(mirror, data)
    ELSE updateGraphData(mirror, data)

\* let originalData = { nodes: [], links: [] }
ClientIdle == originalData = MkMirror(<<>>, <<>>) /\ rtPhase = "off"
EqIdle == eqOp = "none" /\ eqA = EmptyMap /\ eqB = EmptyMap /\ eqRet = FALSE

\* new Set(['namespace', 'configmap', 'secret', 'serviceaccount'])
HiddenByDefault == {"namespace", "configmap", "secret", "serviceaccount"}

\* what the page handled last: the event, the type of the message, the path taken
Handled(event, type, path) == [event |-> event, type |-> type, path |-> path]

\* the globals of the page as the script declares them, the scene still empty
PageLoaded ==
    /\ scene = [nodes |-> <<>>, links |-> <<>>]
    /\ currentFilteredData = [nodes |-> <<>>, links |-> <<>>]
    /\ hiddenResourceTypes = HiddenByDefault
    /\ hiddenRelationshipTypes = {}
    /\ isUpdatingFromToggle = FALSE
    /\ applyTimers = 0
    /\ toggleTimeout = FALSE
    /\ handled = Handled("load", "", "")
    /\ isInitialized = FALSE

\* let reconnectInterval = 1000
initialReconnectInterval == 1000
\* const maxReconnectInterval = 30000
maxReconnectInterval == 30000

\* the socket after initializeApp has called connectWebSocket
SocketConnecting ==
    /\ ws = "connecting"
    /\ reconnectInterval = initialReconnectInterval
    /\ reconnectTimers = 0
    /\ closes = <<>>
    /\ requests = 0

(***************************************************************************)
(* The hub: its state after NewHub, before any connection.                 *)
(***************************************************************************)
\* the connections made in a hub run
Clients == {"c1", "c2"}

NoMsg == ToJSON(NilRet)

\* make(chan []byte, 256)
NewChan == [buf |-> <<>>, closed |-> FALSE]

\* what a tick did: whether it called the collector, whether the collector
\* answered with an error, and how the tick ended
TickDid(fetched, fetchErr, outcome) ==
    [fetched |-> fetched, fetchErr |-> fetchErr, outcome |-> outcome]

NewHub ==
    /\ clients = {}
    /\ send = [c \in Clients |-> NewChan]
    /\ boot = [c \in Clients |-> "none"]
    /\ rp = [c \in Clients |-> "none"]
    /\ wp = [c \in Clients |-> "none"]
    /\ pending = [pc |-> "idle", msg |-> NoMsg]
    /\ ticks = 0
    /\ lastTick = TickDid(FALSE, FALSE, "none")
    /\ enqueued = [c \in Clients |-> <<>>]
    /\ taken = [c \in Clients |-> <<>>]
    /\ panicked = ""

(***************************************************************************)
(* Spec: the tracker under any sequence of GenerateDelta and Reset calls.  *)
(***************************************************************************)
Init == TrackerInit /\ ClientIdle /\ PageLoaded /\ SocketConnecting /\ EqIdle /\ NewHub

Next ==
    \/ \E g \in Graphs : GenerateDelta(g) /\ UNCHANGED <<clientVars, pageVars, socketVars, eqVars, hubVars>>
    \/ Reset /\ UNCHANGED <<clientVars, pageVars, socketVars, eqVars, hubVars>>
    \/ CallGetStats /\ UNCHANGED <<clientVars, pageVars, socketVars, eqVars, hubVars>>

Spec == Init /\ [][Next]_vars

(***************************************************************************)
(* SpecRoundTrip: tracker and mirror both hold a snapshot S1; the tracker   *)
(* is given S2 and the client processes the message it returns.            *)
(***************************************************************************)
InitRoundTrip ==
    /\ \E S1 \in ValidGraphs :
          /\ previousNodes = updatePreviousState(S1).nodes
          /\ previousLinks = updatePreviousState(S1).links
          /\ held = [valid |-> TRUE, g |-> S1, reset |-> FALSE]
          /\ arg = S1
          /\ originalData = MkMirror(S1.Nodes, S1.Links)
    /\ op = "synced"
    /\ ret = NoRet
    /\ before = [nodes |-> nodeMap(<<>>), links |-> linkMap(<<>>), held |-> NotHeld]
    /\ rtPhase = "synced"
    /\ PageLoaded /\ SocketConnecting /\ EqIdle /\ NewHub

RoundTripGenerate(S2) ==
    /\ rtPhase = "synced"
    /\ GenerateDelta(S2)
    /\ rtPhase' = "sent"
    /\ UNCHANGED <<originalData, eqVars, hubVars, pageVars, socketVars>>

RoundTripMessage ==
    /\ rtPhase = "sent"
    /\ ret.kind = "update"
    /\ originalData' = onmessage(originalData, ToJSON(ret))
    /\ rtPhase' = "applied"
    /\ UNCHANGED <<trackerVars, eqVars, hubVars, pageVars, socketVars>>

NextRoundTrip ==
    \/ \E S2 \in ValidGraphs : RoundTripGenerate(S2)
    \/ RoundTripMessage

SpecRoundTrip == InitRoundTrip /\ [][NextRoundTrip]_vars

(***************************************************************************)
(* Properties of the delta tracker, checked under Spec.                    *)
(***************************************************************************)
\* the last operation was a GenerateDelta call that returned no error
Called == op = "GenerateDelta" /\ ret.kind # "error"

\* ... and the tracker then held the snapshot before.held.g, given to it by an
\* earlier successful call with no Reset since
CalledAgain == Called /\ before.held.valid

NodeIds(nodes) == {nodes[i].Id : i \in DOMAIN nodes}

Touches(link, id) == link.Source = id \/ link.Target = id

NonEmpty(g) == Len(g.Nodes) > 0 \/ Len(g.Links) > 0

\* C1: calling GenerateDelta twice in a row with the same graph G (the empty graph
\* included), with no Reset in between, returns nil on the second call.
C1_SameGraphTwiceIsNil ==
    (CalledAgain /\ arg = before.held.g) => ret.kind = "nil"

\* C3: the first call on a fresh tracker with a non-empty graph G returns a "full"
\* update carrying exactly G's nodes and links and no removals, and G becomes the
\* tracker's previous state.
C3_FirstCallIsFull ==
    (Called /\ ~before.held.valid /\ NonEmpty(arg)) =>
        /\ ret.kind = "update" /\ ret.Type = "full"
        /\ ret.Nodes = arg.Nodes /\ ret.Links = arg.Links
        /\ ret.RemovedNodes = <<>> /\ ret.RemovedLinks = <<>>
        /\ DOMAIN previousNodes = NodeIds(arg.Nodes)
        /\ \A i \in DOMAIN arg.Nodes : previousNodes[arg.Nodes[i].Id] = arg.Nodes[i]
        /\ DOMAIN previousLinks = {linkKey(arg.Links[i]) : i \in DOMAIN arg.Links}
        /\ \A k \in DOMAIN previousLinks :
              previousLinks[k] \in Range(arg.Links) /\ linkKey(previousLinks[k]) = k

C3_Witness ==
    /\ Called /\ ~before.held.valid
    /\ Len(arg.Nodes) = 2 /\ Len(arg.Links) > 0
    /\ ret.Type = "full"

\* C4: a "full" update is returned only by the first successful call after
\* construction or Reset; every later call that returns an update returns "delta".
C4_FullOnlyOnFirstCall ==
    (Called /\ ret.kind = "update" /\ ret.Type = "full") => ~before.held.valid

C5_ExpectedNodes ==
    {n \in Range(arg.Nodes) :
        \/ n.Id \notin DOMAIN before.nodes
        \/ ~nodesEqual(before.nodes[n.Id], n)}

C5_OnlyAdds ==
    /\ Range(before.held.g.Nodes) \subseteq Range(arg.Nodes)
    /\ Range(before.held.g.Links) \subseteq Range(arg.Links)

C5_NodePart ==
    CalledAgain =>
        /\ Range(ret.Nodes) = C5_ExpectedNodes
        /\ Len(ret.Nodes) = Cardinality(C5_ExpectedNodes)
        /\ Range(ret.RemovedNodes) = DOMAIN before.nodes \ NodeIds(arg.Nodes)

C5_AddPart ==
    (CalledAgain /\ C5_OnlyAdds) =>
        /\ Range(ret.Nodes) = Range(arg.Nodes) \ Range(before.held.g.Nodes)
        /\ Range(ret.Links) = Range(arg.Links) \ Range(before.held.g.Links)
        /\ ret.RemovedNodes = <<>> /\ ret.RemovedLinks = <<>>

\* C5: on a non-first call the update's Nodes are exactly the current nodes that are
\* new or not equal to the previous node of their id, RemovedNodes are exactly the
\* previous ids missing from the snapshot, and when the snapshot only adds nodes and
\* links to the previous one the update lists exactly the added nodes and links and
\* no removals.
C5_NodeAndAddDiff == C5_NodePart /\ C5_AddPart

\* C6: links are diffed like nodes, by the key Source-Target: a link is in the
\* update's Links when its key is new or its value differs from the previous link
\* of that key, and a previous key missing from the snapshot is in RemovedLinks as
\* its {Source, Target} pair.
C6_LinksDiffedLikeNodes ==
    CalledAgain =>
        /\ Range(ret.Links) =
              {l \in Range(arg.Links) :
                  \/ linkKey(l) \notin DOMAIN before.links
                  \/ before.links[linkKey(l)] # l}
        /\ Range(ret.RemovedLinks) =
              {LinkRef(before.links[k]) : k \in
                  DOMAIN before.links \ {linkKey(l) : l \in Range(arg.Links)}}

\* C7: when node N is in one snapshot and not in the next, the next call returns a
\* delta whose RemovedNodes holds N's id and whose Links hold no link that touched
\* N in the earlier snapshot.
C7_RemovedNodeAndItsLinks ==
    CalledAgain =>
        \A id \in NodeIds(before.held.g.Nodes) \ NodeIds(arg.Nodes) :
            /\ ret.kind = "update" /\ ret.Type = "delta"
            /\ id \in Range(ret.RemovedNodes)
            /\ \A l \in Range(before.held.g.Links) :
                  Touches(l, id) => l \notin Range(ret.Links)

C7_Witness ==
    /\ CalledAgain
    /\ \E id \in NodeIds(before.held.g.Nodes) \ NodeIds(arg.Nodes) :
          /\ id \in Range(ret.RemovedNodes)
          /\ \E l \in Range(before.held.g.Links) :
                Touches(l, id) /\ l \in Range(arg.Links)

IsPermutation(p, q) ==
    /\ Len(p) = Len(q)
    /\ \E f \in Perms(1..Len(p)) : \A i \in 1..Len(p) : p[i] = q[f[i]]

SameBut(G1, G2, i) ==
    /\ G1.Links = G2.Links
    /\ Len(G1.Nodes) = Len(G2.Nodes)
    /\ i \in DOMAIN G1.Nodes
    /\ \A j \in DOMAIN G1.Nodes : j # i => G1.Nodes[j] = G2.Nodes[j]

KeyNamesPermuted(G1, G2, i) ==
    /\ SameBut(G1, G2, i)
    /\ LET n1 == G1.Nodes[i]
           n2 == G2.Nodes[i]
           k1 == n1.ResourceInfo["key_names"]
           k2 == n2.ResourceInfo["key_names"]
       IN /\ n2 = [n1 EXCEPT !.ResourceInfo = [@ EXCEPT !["key_names"] = k2]]
          /\ k1.t = "[]interface{}" /\ k2.t = "[]interface{}"
          /\ k1.is # k2.is
          /\ IsPermutation(k1.is, k2.is)

StatusDiffers(G1, G2, i) ==
    /\ SameBut(G1, G2, i)
    /\ G2.Nodes[i] = [G1.Nodes[i] EXCEPT !.Status = G2.Nodes[i].Status]
    /\ G1.Nodes[i].Status # G2.Nodes[i].Status

\* C8: two successive snapshots that differ only in the order of node N's key_names
\* give nil on the second call; two that differ only in N's Status give a delta
\* whose Nodes holds N.
C8_PermutedKeysNilStatusDelta ==
    CalledAgain =>
        \A i \in DOMAIN arg.Nodes :
            /\ KeyNamesPermuted(before.held.g, arg, i) => ret.kind = "nil"
            /\ StatusDiffers(before.held.g, arg, i) =>
                  /\ ret.kind = "update" /\ ret.Type = "delta"
                  /\ arg.Nodes[i] \in Range(ret.Nodes)

C8_Witness ==
    /\ CalledAgain
    /\ \E i \in DOMAIN arg.Nodes : KeyNamesPermuted(before.held.g, arg, i)
    /\ ret.kind = "nil"

C8_WitnessStatus ==
    /\ CalledAgain
    /\ \E i \in DOMAIN arg.Nodes : StatusDiffers(before.held.g, arg, i)
    /\ ret.Type = "delta"

\* the snapshot held before the call and the one given to it hold the same nodes
\* (by id, equal under nodesEqual) and the same links (by endpoints, equal values)
C11_NothingChanged ==
    /\ NodeIds(before.held.g.Nodes) = NodeIds(arg.Nodes)
    /\ \A n \in Range(before.held.g.Nodes), m \in Range(arg.Nodes) :
          n.Id = m.Id => nodesEqual(n, m)
    /\ Range(before.held.g.Links) = Range(arg.Links)

\* C11: on a non-first call GenerateDelta returns nil exactly when, relative to the
\* previous state, no node was added, changed or removed and no link was added,
\* changed or removed; otherwise it returns a delta.
C11_NilIffNothingChanged ==
    CalledAgain =>
        /\ (ret.kind = "nil" <=> C11_NothingChanged)
        /\ (ret.kind # "nil" => (ret.kind = "update" /\ ret.Type = "delta"))

\* C12: GenerateDelta returns an error and no update exactly when the snapshot, its
\* node collection or its link collection is nil, and the failed call leaves the
\* previous state as it was; an empty collection is not an error.
C12_NilSnapshotIsError ==
    op = "GenerateDelta" =>
        /\ (ret.kind = "error" <=> (arg.isNil \/ arg.NodesNil \/ arg.LinksNil))
        /\ (ret.kind = "error" =>
               /\ ret = ErrRet
               /\ previousNodes = before.nodes
               /\ previousLinks = before.links)

C12_Witness ==
    /\ op = "GenerateDelta" /\ ret.kind = "error"
    /\ ~arg.isNil /\ ~arg.NodesNil /\ arg.LinksNil
    /\ mapLen(previousNodes) = 2 /\ mapLen(previousLinks) > 0

C12_WitnessEmpty ==
    /\ op = "GenerateDelta" /\ ret.kind = "update"
    /\ arg = EmptyGraph /\ before.held.valid

\* C13: after Reset, whatever was processed before, GetStats reports zero nodes and
\* links, and the next successful GenerateDelta call returns a "full" update with
\* the complete snapshot.
C13_ResetForcesFull ==
    /\ op = "Reset" =>
          GetStats(previousNodes, previousLinks) =
              [previous_nodes |-> 0, previous_links |-> 0]
    /\ (Called /\ before.held.reset) =>
          /\ ret.kind = "update" /\ ret.Type = "full"
          /\ ret.Nodes = arg.Nodes /\ ret.Links = arg.Links
          /\ ret.RemovedNodes = <<>> /\ ret.RemovedLinks = <<>>

C13_Witness ==
    /\ Called /\ before.held.reset
    /\ Len(before.held.g.Nodes) = 2 /\ Len(before.held.g.Links) > 0
    /\ NonEmpty(arg) /\ arg # before.held.g
    /\ ret.Type = "full"

\* the maps hold snapshot g: its nodes under their ids, its links under their keys
HoldsSnapshot(nodes, links, g) ==
    /\ DOMAIN nodes = NodeIds(g.Nodes)
    /\ \A i \in DOMAIN g.Nodes : nodes[g.Nodes[i].Id] = g.Nodes[i]
    /\ DOMAIN links = {linkKey(g.Links[i]) : i \in DOMAIN g.Links}
    /\ \A k \in DOMAIN links : links[k] \in Range(g.Links) /\ linkKey(links[k]) = k

\* C31: after every GenerateDelta call that returned no error, be its result a full
\* update, a delta or nil, the tracker's previous state is the call's snapshot (nodes
\* under their ids, links under their Source-Target keys); GetStats reports the
\* number of ids and of keys held and writes nothing.
C31_PreviousStateIsSnapshot ==
    /\ [](Called => HoldsSnapshot(previousNodes, previousLinks, arg))
    /\ []((op = "GetStats" /\ held.valid) =>
            /\ HoldsSnapshot(previousNodes, previousLinks, held.g)
            /\ ret.stats.previous_nodes = Cardinality(NodeIds(held.g.Nodes))
            /\ ret.stats.previous_links =
                  Cardinality({linkKey(held.g.Links[i]) : i \in DOMAIN held.g.Links}))
    /\ [][op' = "GetStats" => UNCHANGED <<previousNodes, previousLinks, held>>]_vars

\* GetStats is called on a tracker that holds a snapshot of two nodes and a link
C31_WitnessStats ==
    /\ op = "GetStats" /\ held.valid
    /\ ret.stats = [previous_nodes |-> 2, previous_links |-> 1]
    /\ Len(held.g.Links) = 1

\* a call returned nil for a snapshot that differs from the one held before it
C31_Witness ==
    /\ Called /\ ret.kind = "nil" /\ before.held.valid
    /\ arg # before.held.g
    /\ Len(arg.Nodes) = 2 /\ Len(arg.Links) = 1

(***************************************************************************)
(* SpecEq: mapsEqual and resourceInfoEqual applied to a drawn pair of maps. *)
(***************************************************************************)
\* every map from a subset of keys to vals
MapsOver(keys, vals) == UNION {[d -> vals] : d \in SUBSET keys}

\* Labels / Annotations: a key may hold the empty string
LabelMaps == MapsOver({"x", "y"}, {"", "v"})

\* array elements: a string, the number of the same digits, another string
Elements == {Str("80"), Num(80), Str("443")}

\* values under the allow-listed key "ports"
PortValues ==
    {IfaceSlice(q) : q \in SeqsUpTo(Elements, MaxLen)}
        \cup {StrSlice(q) : q \in SeqsUpTo({"80", "443"}, MaxLen)}
        \cup {Str("80")}

\* values under the key "image", which is not allow-listed
ImageValues ==
    {Str("80"), Num(80),
     IfaceSlice(<<Str("80"), Str("443")>>), IfaceSlice(<<Str("443"), Str("80")>>)}

ResourceInfoMaps ==
    {EmptyMap}
        \cup {("ports" :> p) : p \in PortValues}
        \cup {("image" :> v) : v \in ImageValues}
        \cup {("ports" :> p) @@ ("image" :> v) : p \in PortValues, v \in ImageValues}

InitEq ==
    /\ TrackerInit /\ ClientIdle /\ PageLoaded /\ SocketConnecting /\ NewHub
    /\ eqRet = FALSE
    /\ \/ eqOp = "labels" /\ eqA \in LabelMaps /\ eqB \in LabelMaps
       \/ eqOp = "resourceInfo" /\ eqA \in ResourceInfoMaps /\ eqB \in ResourceInfoMaps

CallMapsEqual ==
    /\ eqOp = "labels"
    /\ eqOp' = "mapsEqual"
    /\ eqRet' = mapsEqual(eqA, eqB)
    /\ UNCHANGED <<eqA, eqB, trackerVars, clientVars, pageVars, socketVars, hubVars>>

CallResourceInfoEqual ==
    /\ eqOp = "resourceInfo"
    /\ eqOp' = "resourceInfoEqual"
    /\ eqRet' = resourceInfoEqual(eqA, eqB)
    /\ UNCHANGED <<eqA, eqB, trackerVars, clientVars, pageVars, socketVars, hubVars>>

NextEq == CallMapsEqual \/ CallResourceInfoEqual

SpecEq == InitEq /\ [][NextEq]_vars

(***************************************************************************)
(* Round trip, checked under SpecRoundTrip.                                *)
(***************************************************************************)
MirrorEquals(mirror, g) ==
    /\ ~mirror.null
    /\ Range(mirror.nodes) = Range(g.Nodes)
    /\ Range(mirror.links) = Range(g.Links)

\* C2: if the mirror equals S1 and the tracker holds S1, applying the delta
\* GenerateDelta(S2) to the mirror makes the mirror equal to S2.
C2_RoundTrip ==
    (rtPhase = "applied" /\ ret.Type = "delta") => MirrorEquals(originalData, arg)

(***************************************************************************)
(* Equality rules, checked under SpecEq.                                   *)
(***************************************************************************)
\* C9: mapsEqual returns true exactly when the two maps have the same keys and
\* every key holds the same value in both, empty-string values included.
C9_MapsEqualIffSamePairs ==
    eqOp = "mapsEqual" =>
        (eqRet <=> (DOMAIN eqA = DOMAIN eqB /\ \A k \in DOMAIN eqA : eqA[k] = eqB[k]))

IsSlice(v) == v.t \in {"[]string", "[]interface{}"}

\* the elements of a slice value, as tagged values
ElementsOf(v) ==
    IF v.t = "[]string" THEN [i \in DOMAIN v.ss |-> Str(v.ss[i])] ELSE v.is

\* the equality the claim describes for the value of one key
ValueEqualAsSpecified(key, va, vb) ==
    IF key \in orderIgnoredArrayFields /\ IsSlice(va) /\ IsSlice(vb)
    THEN IsPermutation(ElementsOf(va), ElementsOf(vb))
    ELSE va = vb

\* both values of every allow-listed key are slices of the same Go type, or not slices
SameSliceTypes(a, b) ==
    \A key \in DOMAIN a \cap DOMAIN b :
        (IsSlice(a[key]) /\ IsSlice(b[key])) => a[key].t = b[key].t

\* C10: resourceInfoEqual returns true exactly when the maps have the same keys and
\* per key equal values, a sequence under an allow-listed key being compared as the
\* multiset of its elements (distinct elements never identified) and every other
\* value by exact structural equality.
C10_ResourceInfoEqualAsSpecified ==
    (eqOp = "resourceInfoEqual" /\ SameSliceTypes(eqA, eqB)) =>
        (eqRet <=> /\ DOMAIN eqA = DOMAIN eqB
                   /\ \A key \in DOMAIN eqA : ValueEqualAsSpecified(key, eqA[key], eqB[key]))

(***************************************************************************)
(* SpecHub: the hub (Hub.Run, its ticker goroutine, sendInitialData) and   *)
(* the pumps of every connection, interleaved step by step.                *)
(***************************************************************************)
\* the snapshots the collector returns in a hub run: node "a", its Status changing
HubGraphs ==
    {MkGraph(<<MkNode("a", "configmap", "Active", KeysAB)>>, <<>>),
     MkGraph(<<MkNode("a", "configmap", "Terminating", KeysAB)>>, <<>>)}

\* renderer.GetGraph followed by json.Unmarshal: an error, or a graph
GetGraphResults ==
    {[err |-> TRUE, graph |-> EmptyGraph]} \cup {[err |-> FALSE, graph |-> g] : g \in HubGraphs}

\* faulty variant: the error of the fetch is not looked at
fetchFailed_ignored(r) == FALSE

\* if err != nil { log...; return }
fetchFailed(r) == r.err

\* faulty variant: the ticker fetches whatever the consumer set holds
hasClients_always(cs) == TRUE

\* len(h.clients) > 0
hasClients(cs) == Cardinality(cs) > 0

\* faulty variant: the bootstrap message is typed "delta"
fullUpdate_asDelta(graph) == DeltaUpdate("delta", graph.Nodes, graph.Links, <<>>, <<>>)

\* &delta.DeltaUpdate{Type: "full", Nodes: *graph.Nodes, Links: *graph.Links}
fullUpdate(graph) == DeltaUpdate("full", graph.Nodes, graph.Links, <<>>, <<>>)

\* select { case q <- m: default: }: a send on a closed channel panics, a send on a
\* channel with room is made, and default is taken when the buffer is full
trySend(q) ==
    IF q.closed THEN "panic"
    ELSE IF Len(q.buf) < QueueCap THEN "sent"
    ELSE "full"

\* faulty variant: the newest buffered message is received first
chanRecv_newest(q) == [msg |-> q.buf[Len(q.buf)], rest |-> SubSeq(q.buf, 1, Len(q.buf) - 1)]

\* message := <-q on a channel that holds messages
chanRecv(q) == [msg |-> Head(q.buf), rest |-> Tail(q.buf)]

\* for client := range h.clients { select { case client.send <- message: default:
\* close(client.send); delete(h.clients, client) } }, in the order the map yields
RECURSIVE fanOut(_, _, _)
fanOut(order, st, message) ==
    IF order = <<>> \/ st.panicked # "" THEN st
    ELSE LET client == Head(order)
             r == trySend(st.send[client])
         IN fanOut(Tail(order),
                CASE r = "sent" ->
                       [st EXCEPT !.send[client].buf = Append(@, message),
                                  !.enqueued[client] =
                                      Append(@, [msg |-> message, by |-> "broadcast"])]
                  [] r = "full" ->
                       [st EXCEPT !.send[client].closed = TRUE,
                                  !.clients = @ \ {client}]
                  [] OTHER ->
                       [st EXCEPT !.panicked = "send on closed channel"],
                message)

Running == panicked = ""

\* HandleWebSocket and case client := <-h.register; the connections are named in
\* the order in which the hub receives them
Register(c) ==
    /\ Running /\ rp[c] = "none"
    /\ c = "c2" => rp["c1"] # "none"
    /\ clients' = clients \cup {c}
    /\ boot' = [boot EXCEPT ![c] = "fetch"]
    /\ rp' = [rp EXCEPT ![c] = "reading"]
    /\ wp' = [wp EXCEPT ![c] = "running"]
    /\ UNCHANGED <<send, pending, ticks, lastTick, enqueued, taken, panicked>>

\* sendInitialData up to and including its select, for the results the fetch can
\* have; close(client.send) of the default branch is made here,
\* delete(h.clients, client) is the next step
BootstrapFrom(c, results) ==
    /\ Running /\ boot[c] = "fetch"
    /\ \E r \in results :
          IF fetchFailed(r)
          THEN /\ boot' = [boot EXCEPT ![c] = "done"]
               /\ UNCHANGED <<send, enqueued, panicked>>
          ELSE LET fullUpdateJSON == ToJSON(fullUpdate(r.graph))
                   o == trySend(send[c])
               IN /\ boot' = [boot EXCEPT ![c] = IF o = "full" THEN "delete" ELSE "done"]
                  /\ send' = [send EXCEPT ![c] =
                        IF o = "sent" THEN [@ EXCEPT !.buf = Append(@, fullUpdateJSON)]
                        ELSE IF o = "full" THEN [@ EXCEPT !.closed = TRUE]
                        ELSE @]
                  /\ enqueued' = [enqueued EXCEPT ![c] =
                        IF o = "sent"
                        THEN Append(@, [msg |-> fullUpdateJSON, by |-> "bootstrap"])
                        ELSE @]
                  /\ panicked' = IF o = "panic" THEN "send on closed channel" ELSE ""
    /\ UNCHANGED <<clients, rp, wp, pending, ticks, lastTick, taken>>

Bootstrap(c) == BootstrapFrom(c, GetGraphResults)

\* delete(h.clients, client) of sendInitialData's default branch
BootstrapDelete(c) ==
    /\ Running /\ boot[c] = "delete"
    /\ clients' = clients \ {c}
    /\ boot' = [boot EXCEPT ![c] = "done"]
    /\ UNCHANGED <<send, rp, wp, pending, ticks, lastTick, enqueued, taken, panicked>>

\* one tick of the ticker goroutine, for the results the fetch can have and the
\* errors deltaUpdate.ToJSON() can return (TRUE: an error): the test of
\* len(h.clients) and fetchAndBroadcast up to its send on h.broadcast, on which it
\* then blocks
TickWith(results, marshalErrs) ==
    /\ Running /\ pending.pc = "idle" /\ ticks < MaxTicks
    /\ ticks' = ticks + 1
    /\ UNCHANGED <<clients, send, boot, rp, wp, enqueued, taken, panicked>>
    /\ IF ~hasClients(clients)
       THEN /\ lastTick' = TickDid(FALSE, FALSE, "no clients")
            /\ UNCHANGED <<pending, trackerVars>>
       ELSE \E r \in results, marshalErr \in marshalErrs :
              IF fetchFailed(r)
              THEN /\ lastTick' = TickDid(TRUE, r.err, "abandoned")
                   /\ UNCHANGED <<pending, trackerVars>>
              ELSE /\ GenerateDelta(r.graph)
                   /\ lastTick' = TickDid(TRUE, r.err,
                                          IF ret'.kind = "update" /\ marshalErr
                                          THEN "marshal failed" ELSE ret'.kind)
                   /\ pending' = IF ret'.kind = "update" /\ ~marshalErr
                                 THEN [pc |-> "send", msg |-> ToJSON(ret')]
                                 ELSE pending

\* a tick whose deltaUpdate.ToJSON() succeeds
TickFrom(results) == TickWith(results, {FALSE})

Tick == TickFrom(GetGraphResults)

\* case message := <-h.broadcast, with the ticker goroutine's send that it meets
Broadcast ==
    /\ Running /\ pending.pc = "send"
    /\ \E order \in Perms(clients) :
          LET st == fanOut(order,
                      [send |-> send, clients |-> clients, enqueued |-> enqueued,
                       panicked |-> ""],
                      pending.msg)
          IN /\ send' = st.send
             /\ clients' = st.clients
             /\ enqueued' = st.enqueued
             /\ panicked' = st.panicked
    /\ pending' = [pc |-> "idle", msg |-> NoMsg]
    /\ UNCHANGED <<boot, rp, wp, ticks, lastTick, taken>>

\* readPump: ReadMessage fails (the peer left, the deadline passed, or the
\* connection was closed), the deferred function sends on h.unregister, and the
\* hub's case client := <-h.unregister receives it
Unregister(c) ==
    /\ Running /\ rp[c] = "reading"
    /\ rp' = [rp EXCEPT ![c] = "done"]
    /\ IF c \in clients
       THEN /\ clients' = clients \ {c}
            /\ IF send[c].closed
               THEN panicked' = "close of closed channel" /\ UNCHANGED send
               ELSE send' = [send EXCEPT ![c].closed = TRUE] /\ UNCHANGED panicked
       ELSE UNCHANGED <<clients, send, panicked>>
    /\ UNCHANGED <<boot, wp, pending, ticks, lastTick, enqueued, taken>>

\* writePump: a message is received from c.send and written; the write fails, and
\* ends the pump, when the connection is closed (readPump's deferred c.conn.Close())
WriteMessage(c) ==
    /\ Running /\ wp[c] = "running" /\ send[c].buf # <<>>
    /\ taken' = [taken EXCEPT ![c] = Append(@, chanRecv(send[c]).msg)]
    /\ send' = [send EXCEPT ![c].buf = chanRecv(send[c]).rest]
    /\ wp' = [wp EXCEPT ![c] = IF rp[c] = "done" THEN "done" ELSE "running"]
    /\ UNCHANGED <<clients, boot, rp, pending, ticks, lastTick, enqueued, panicked>>

\* writePump: the receive from the drained, closed c.send gives !ok and ends the pump
WriteEnd(c) ==
    /\ Running /\ wp[c] = "running" /\ send[c].buf = <<>> /\ send[c].closed
    /\ wp' = [wp EXCEPT ![c] = "done"]
    /\ UNCHANGED <<clients, send, boot, rp, pending, ticks, lastTick, enqueued, taken, panicked>>

InitHub == TrackerInit /\ ClientIdle /\ PageLoaded /\ SocketConnecting /\ EqIdle /\ NewHub

NextHub ==
    \/ \E c \in Clients : Register(c) /\ UNCHANGED <<trackerVars, clientVars, pageVars, socketVars, eqVars>>
    \/ \E c \in Clients : Bootstrap(c) /\ UNCHANGED <<trackerVars, clientVars, pageVars, socketVars, eqVars>>
    \/ \E c \in Clients : BootstrapDelete(c) /\ UNCHANGED <<trackerVars, clientVars, pageVars, socketVars, eqVars>>
    \/ Tick /\ UNCHANGED <<clientVars, pageVars, socketVars, eqVars>>
    \/ Broadcast /\ UNCHANGED <<trackerVars, clientVars, pageVars, socketVars, eqVars>>
    \/ \E c \in Clients : Unregister(c) /\ UNCHANGED <<trackerVars, clientVars, pageVars, socketVars, eqVars>>
    \/ \E c \in Clients : WriteMessage(c) /\ UNCHANGED <<trackerVars, clientVars, pageVars, socketVars, eqVars>>
    \/ \E c \in Clients : WriteEnd(c) /\ UNCHANGED <<trackerVars, clientVars, pageVars, socketVars, eqVars>>

SpecHub == InitHub /\ [][NextHub]_vars

(***************************************************************************)
(* Properties of the hub, checked under SpecHub.                           *)
(***************************************************************************)
\* the step is a fan-out: the hub receives the ticker goroutine's message
FanOutStep == pending.pc = "send" /\ pending'.pc = "idle"

QueueFull(c) == Len(send[c].buf) = QueueCap

\* what the claim of C14 says of a fan-out step
C14_Backpressure ==
    /\ panicked' = ""
    /\ \A b \in clients : QueueFull(b) => (send'[b].closed /\ b \notin clients')
    /\ \A a \in clients :
          ~QueueFull(a) =>
              /\ a \in clients'
              /\ send'[a].buf = Append(send[a].buf, pending.msg)

\* C14: when a message is fanned out and a registered consumer's queue is full, that
\* consumer's queue is closed and the consumer removed within the fan-out, the hub
\* not blocking, and every other registered consumer whose queue has room gets the
\* message.
C14_FanOutEvictsFullOnly ==
    [][(FanOutStep /\ \E b \in clients : QueueFull(b)) => C14_Backpressure]_vars

\* the same, for fan-outs that find every registered consumer's queue open
C14_WhenQueuesOpen ==
    [][(FanOutStep /\ (\E b \in clients : QueueFull(b))
          /\ \A c \in clients : ~send[c].closed) => C14_Backpressure]_vars

\* the step is the bootstrap of consumer c: sendInitialData's fetch and select
BootstrapStep(c) == boot[c] = "fetch" /\ boot'[c] # "fetch"

\* C15: the bootstrap of a newly registered consumer, which needs no tick, puts a
\* "full" message carrying the whole fetched graph on the new consumer's queue and
\* on no other; the membership and the queues of the other consumers are unchanged.
C15_BootstrapToNewConsumerOnly ==
    [][\A c \in Clients :
          BootstrapStep(c) =>
              /\ \A o \in Clients \ {c} :
                    /\ send'[o] = send[o]
                    /\ enqueued'[o] = enqueued[o]
                    /\ (o \in clients' <=> o \in clients)
              /\ UNCHANGED <<pending, ticks, previousNodes, previousLinks>>
              /\ (~send[c].closed /\ ~QueueFull(c)) =>
                    \/ send'[c] = send[c]
                    \/ \E g \in HubGraphs :
                          send'[c] = [send[c] EXCEPT !.buf = Append(@,
                              ToJSON(DeltaUpdate("full", g.Nodes, g.Links, <<>>, <<>>)))]
      ]_vars

C15_Witness ==
    /\ ticks = 0
    /\ clients = {"c1", "c2"}
    /\ send["c1"].buf # <<>>
    /\ Len(enqueued["c2"]) = 1
    /\ enqueued["c2"][1].by = "bootstrap"
    /\ enqueued["c2"][1].msg.type = "full"
    /\ send["c2"].buf = <<enqueued["c2"][1].msg>>

\* C16: on every consumer's queue no "delta" message is enqueued ahead of the
\* consumer's bootstrap "full" message.
C16_BootstrapFullFirst ==
    \A c \in Clients : \A i \in DOMAIN enqueued[c] :
        enqueued[c][i].msg.type = "delta" =>
            \E j \in 1..(i - 1) : enqueued[c][j].by = "bootstrap"

\* C17: the hub never sends on a closed send queue and never closes a queue twice.
C17_HubNeverPanics == panicked = ""

\* C18: a tick that finds the consumer set empty calls no collector, leaves the
\* tracker's previous state as it was and enqueues nothing for fan-out.
C18_EmptyTickIsNoOp ==
    [][(ticks' # ticks /\ clients = {}) =>
          /\ ~lastTick'.fetched
          /\ UNCHANGED <<previousNodes, previousLinks, pending, send, enqueued, clients>>
      ]_vars

C18_Witness ==
    /\ lastTick.outcome = "no clients"
    /\ clients = {}
    /\ mapLen(previousNodes) > 0
    /\ pending.pc = "idle"

\* C19: a tick whose collector fetch fails enqueues nothing for fan-out and leaves
\* the consumer set, every queue and the tracker's previous state unchanged; the hub
\* keeps running with its ticker goroutine ready for the next tick.
C19_FailedFetchAbandonsTick ==
    [][(ticks' # ticks /\ lastTick'.fetchErr) =>
          /\ UNCHANGED <<clients, send, enqueued, pending, previousNodes, previousLinks>>
          /\ pending'.pc = "idle"
          /\ panicked' = ""
      ]_vars

C19_Witness ==
    /\ lastTick.fetchErr
    /\ clients = {"c1", "c2"}
    /\ send["c1"].buf # <<>>
    /\ mapLen(previousNodes) > 0
    /\ ticks < MaxTicks

\* C20: for every consumer the messages its write loop has taken, followed by those
\* still on its queue, are the messages the hub enqueued for it, in that order.
C20_PerConsumerFifo ==
    \A c \in Clients :
        taken[c] \o send[c].buf = [i \in DOMAIN enqueued[c] |-> enqueued[c][i].msg]

C20_Witness ==
    \E c \in Clients :
        /\ Len(taken[c]) >= 2
        /\ taken[c][1] # taken[c][2]
        /\ send[c].buf # <<>>

\* the step is one of the cases of Run's select: register and unregister move
\* the consumer's readPump position, broadcast is the fan-out
RunStep == FanOutStep \/ \E c \in Clients : rp'[c] # rp[c]

\* C27: the consumer set is changed and consumer queues are closed only by the
\* Run loop handling a register, unregister or broadcast message; the ticker, the
\* bootstrap sender and the read and write loops do neither.
C27_SingleWriterSet ==
    [][(clients' # clients \/ \E c \in Clients : send'[c].closed # send[c].closed)
          => RunStep]_vars

\* C28: the tracker's previous state is read and replaced only in a step of the Run
\* loop, the fetched graph having been handed to it before GenerateDelta is called;
\* no other activity (the ticker goroutine among them) touches the tracker.
C28_TrackerOnlyInRun ==
    [][(previousNodes' # previousNodes \/ previousLinks' # previousLinks \/ op' # op)
          => RunStep]_vars

(***************************************************************************)
(* The page: filters, scene and message handling.                          *)
(***************************************************************************)
Min(S) == CHOOSE x \in S : \A y \in S : x <= y

\* faulty variant: the endpoints of a link are not looked at
filterGraphData_endpointsUnchecked(data, hiddenTypes, hiddenRels) ==
    [nodes |-> SelectSeq(data.nodes, LAMBDA n : n.Type \notin hiddenTypes),
     links |-> SelectSeq(IF "links" \in data.keys THEN data.links ELSE <<>>,
                         LAMBDA l : l.Relationship \notin hiddenRels)]

\* filterGraphData on an object that has a node collection; a link is kept when
\* both endpoints are kept nodes and its relationship is not hidden
filterGraphData(data, hiddenTypes, hiddenRels) ==
    LET filteredNodes == SelectSeq(data.nodes, LAMBDA n : n.Type \notin hiddenTypes)
        nodeIds == {filteredNodes[i].Id : i \in DOMAIN filteredNodes}
        allLinks == IF "links" \in data.keys THEN data.links ELSE <<>>
        filteredLinks ==
            SelectSeq(allLinks,
                LAMBDA link : /\ endpointId(link.Source) \in nodeIds
                              /\ endpointId(link.Target) \in nodeIds
                              /\ link.Relationship \notin hiddenRels)
    IN [nodes |-> filteredNodes, links |-> filteredLinks]

\* a link object once the force engine has it: both endpoints are node objects
resolve(l) ==
    [l EXCEPT !.Source = NodeObject(endpointId(@)), !.Target = NodeObject(endpointId(@))]

\* graph.graphData(data): the scene holds the objects it is given
graphData(data) ==
    [nodes |-> data.nodes, links |-> [i \in DOMAIN data.links |-> resolve(data.links[i])]]

\* nodeEquals of the page
nodeEquals(a, b) ==
    /\ a.Id = b.Id /\ a.Name = b.Name /\ a.Type = b.Type
    /\ a.Namespace = b.Namespace /\ a.Status = b.Status
    /\ a.StatusMessage = b.StatusMessage

\* updatedNodes.splice(findIndex(n => n.id === nodeToRemove.id), 1) for each entry
RECURSIVE spliceNodes(_, _)
spliceNodes(nodes, toRemove) ==
    IF toRemove = <<>> THEN nodes
    ELSE LET at == {i \in DOMAIN nodes : nodes[i].Id = Head(toRemove).Id}
         IN spliceNodes(
                IF at = {} THEN nodes
                ELSE SubSeq(nodes, 1, Min(at) - 1) \o SubSeq(nodes, Min(at) + 1, Len(nodes)),
                Tail(toRemove))

\* updatedLinks.splice(findIndex(same source id and target id), 1) for each entry
RECURSIVE spliceLinks(_, _)
spliceLinks(links, toRemove) ==
    IF toRemove = <<>> THEN links
    ELSE LET at == {i \in DOMAIN links :
                        /\ endpointId(links[i].Source) = endpointId(Head(toRemove).Source)
                        /\ endpointId(links[i].Target) = endpointId(Head(toRemove).Target)}
         IN spliceLinks(
                IF at = {} THEN links
                ELSE SubSeq(links, 1, Min(at) - 1) \o SubSeq(links, Min(at) + 1, Len(links)),
                Tail(toRemove))

\* performIncrementalUpdate up to its comparison of the two sets: the five lists
\* of changes, and the rendered nodes after Object.assign was applied in place
\* (node ids are unique within newFilteredData)
changes(sc, newFilteredData) ==
    LET currentNodes == sc.nodes
        currentLinks == sc.links
        newNodes == newFilteredData.nodes
        newLinks_ == newFilteredData.links
        currentIds == {currentNodes[i].Id : i \in DOMAIN currentNodes}
        newIds == {newNodes[i].Id : i \in DOMAIN newNodes}
        \* new Map(currentNodes.map(n => [n.id, n])): the last entry of an id wins
        mapped(id) == Max({i \in DOMAIN currentNodes : currentNodes[i].Id = id})
        newNode(id) == newNodes[Min({i \in DOMAIN newNodes : newNodes[i].Id = id})]
        currentLinkKeys == {idKey(currentLinks[i]) : i \in DOMAIN currentLinks}
        newLinkKeys == {templateKey(newLinks_[i]) : i \in DOMAIN newLinks_}
        \* Object.assign(currentNode, newNode), in place
        assigned ==
            [i \in DOMAIN currentNodes |->
                IF /\ currentNodes[i].Id \in newIds
                   /\ i = mapped(currentNodes[i].Id)
                   /\ ~nodeEquals(currentNodes[i], newNode(currentNodes[i].Id))
                THEN objectAssign(currentNodes[i], newNode(currentNodes[i].Id))
                ELSE currentNodes[i]]
    IN [nodesToAdd |-> SelectSeq(newNodes, LAMBDA n : n.Id \notin currentIds),
        nodesToUpdate |->
            SelectSeq(newNodes,
                LAMBDA n : n.Id \in currentIds /\ ~nodeEquals(currentNodes[mapped(n.Id)], n)),
        nodesToRemove |-> SelectSeq(assigned, LAMBDA n : n.Id \notin newIds),
        linksToAdd |-> SelectSeq(newLinks_, LAMBDA l : templateKey(l) \notin currentLinkKeys),
        linksToRemove |-> SelectSeq(currentLinks, LAMBDA l : idKey(l) \notin newLinkKeys),
        assigned |-> assigned]

\* a faulty variant of performIncrementalUpdate: the nodes to remove stay in the
\* scene
performIncrementalUpdate_removalsKept(sc, newFilteredData) ==
    LET c == changes(sc, newFilteredData)
        hasStructuralChanges ==
            Len(c.nodesToAdd) > 0 \/ Len(c.nodesToRemove) > 0
                \/ Len(c.linksToAdd) > 0 \/ Len(c.linksToRemove) > 0
        hasPropertyChanges == Len(c.nodesToUpdate) > 0
    IN [scene |->
            IF hasStructuralChanges
            THEN graphData([nodes |-> c.assigned \o c.nodesToAdd,
                            links |-> spliceLinks(sc.links, c.linksToRemove) \o c.linksToAdd])
            ELSE [nodes |-> c.assigned, links |-> sc.links],
        cached |-> hasStructuralChanges \/ hasPropertyChanges,
        path |-> IF hasStructuralChanges THEN "incremental-structural"
                 ELSE IF hasPropertyChanges THEN "incremental-properties"
                 ELSE "incremental-no-changes"]

\* performIncrementalUpdate: the scene after it, whether the cached view was
\* replaced, and the branch taken
performIncrementalUpdate(sc, newFilteredData) ==
    LET c == changes(sc, newFilteredData)
        hasStructuralChanges ==
            Len(c.nodesToAdd) > 0 \/ Len(c.nodesToRemove) > 0
                \/ Len(c.linksToAdd) > 0 \/ Len(c.linksToRemove) > 0
        hasPropertyChanges == Len(c.nodesToUpdate) > 0
    IN [scene |->
            IF hasStructuralChanges
            THEN graphData([nodes |-> spliceNodes(c.assigned, c.nodesToRemove) \o c.nodesToAdd,
                            links |-> spliceLinks(sc.links, c.linksToRemove) \o c.linksToAdd])
            ELSE [nodes |-> c.assigned, links |-> sc.links],
        cached |-> hasStructuralChanges \/ hasPropertyChanges,
        path |-> IF hasStructuralChanges THEN "incremental-structural"
                 ELSE IF hasPropertyChanges THEN "incremental-properties"
                 ELSE "incremental-no-changes"]

\* applyDeltaToGraph: the scene after it, whether graph.graphData was called, and
\* the link objects of the message that were pushed into the scene
applyDeltaToGraph(sc, deltaData, filteredData, hiddenRels) ==
    LET removedNodeIds ==
            IF has(deltaData, "removed_nodes", deltaData.removed_nodes)
            THEN Range(deltaData.removed_nodes) ELSE {}
        nodes1 == SelectSeq(sc.nodes, LAMBDA n : n.Id \notin removedNodeIds)
        links1 ==
            SelectSeq(sc.links,
                LAMBDA l : /\ endpointId(l.Source) \notin removedNodeIds
                           /\ endpointId(l.Target) \notin removedNodeIds)
        removedLinkKeys ==
            IF has(deltaData, "removed_links", deltaData.removed_links)
            THEN {templateKey(r) : r \in Range(deltaData.removed_links)} ELSE {}
        links2 == SelectSeq(links1, LAMBDA l : idKey(l) \notin removedLinkKeys)
        filteredNodeIds == {filteredData.nodes[i].Id : i \in DOMAIN filteredData.nodes}
        nodes3 ==
            IF has(deltaData, "nodes", deltaData.nodes)
            THEN upsertNodes(nodes1,
                     SelectSeq(deltaData.nodes, LAMBDA n : n.Id \in filteredNodeIds),
                     Len(nodes1))
            ELSE nodes1
        visibleNodeIds == {nodes3[i].Id : i \in DOMAIN nodes3}
        existingLinkKeys == {idKey(links2[i]) : i \in DOMAIN links2}
        pushed ==
            IF has(deltaData, "links", deltaData.links)
            THEN SelectSeq(deltaData.links,
                     LAMBDA newLink : /\ newLink.Source \in visibleNodeIds
                                      /\ newLink.Target \in visibleNodeIds
                                      /\ templateKey(newLink) \notin existingLinkKeys
                                      /\ newLink.Relationship \notin hiddenRels)
            ELSE <<>>
        graphChanged ==
            \/ Len(nodes1) < Len(sc.nodes)
            \/ Len(links2) < Len(sc.links)
            \/ Len(nodes3) > Len(nodes1)
            \/ Len(pushed) > 0
    IN [scene |->
            IF graphChanged
            THEN graphData([nodes |-> nodes3, links |-> links2 \o pushed])
            ELSE [nodes |-> nodes3, links |-> sc.links],
        cached |-> graphChanged,
        pushed |-> Range(pushed)]

\* the mirror's link objects that the scene was given too: the force engine has
\* replaced their endpoints; from is the number of links the mirror held before
shareWithScene(links, from, given) ==
    [i \in DOMAIN links |->
        IF i > from /\ links[i] \in given THEN resolve(links[i]) ELSE links[i]]

\* the state of the page that the handlers read and write
Page(mirror, sc, view) == [mirror |-> mirror, scene |-> sc, view |-> view]

\* updateGraphData after ws.onmessage has set isInitialized: an absent collection
\* makes updateResourceCounts or updateRelationshipCounts throw after originalData
\* was assigned, and ws.onmessage catches it
updateGraphDataOnPage(p, hiddenTypes, hiddenRels, toggling, newData) ==
    IF identical(p.mirror, newData)
    THEN [page |-> p, path |-> "identical"]
    ELSE LET mirror == updateGraphData(p.mirror, newData)
         IN IF ~({"nodes", "links"} \subseteq newData.present)
            THEN [page |-> Page(mirror, p.scene, p.view), path |-> "threw"]
            ELSE IF toggling
            THEN [page |-> Page(mirror, p.scene, p.view), path |-> "toggle in progress"]
            ELSE LET filteredData == filterGraphData(mirror, hiddenTypes, hiddenRels)
                     u == performIncrementalUpdate(p.scene, filteredData)
                 IN [page |-> Page(mirror, u.scene,
                                   IF u.cached THEN filteredData ELSE p.view),
                     path |-> u.path]

\* applyDeltaUpdate for the whole page
applyDeltaUpdateOnPage(p, hiddenTypes, hiddenRels, toggling, deltaData) ==
    IF p.mirror.null
    THEN updateGraphDataOnPage(p, hiddenTypes, hiddenRels, toggling,
            [type |-> "", present |-> {"nodes", "links"},
             nodes |-> IF "nodes" \in deltaData.present THEN deltaData.nodes ELSE <<>>,
             links |-> IF "links" \in deltaData.present THEN deltaData.links ELSE <<>>,
             removed_nodes |-> <<>>, removed_links |-> <<>>])
    ELSE IF ~({"nodes", "links"} \subseteq p.mirror.keys)
    THEN [page |-> p, path |-> "delta threw"]
    ELSE LET updated == applyDeltaUpdate(p.mirror, deltaData)
         IN IF toggling
            THEN [page |-> Page(updated, p.scene, p.view), path |-> "toggle in progress"]
            ELSE LET filteredData == filterGraphData(updated, hiddenTypes, hiddenRels)
                     u == applyDeltaToGraph(p.scene, deltaData, filteredData, hiddenRels)
                     kept == Len(removeFromMirror(p.mirror, deltaData).links)
                 IN [page |->
                        Page([updated EXCEPT
                                 !.links = shareWithScene(@, kept, u.pushed)],
                             u.scene,
                             IF u.cached THEN u.scene ELSE p.view),
                     path |-> "delta"]

\* ws.onmessage for a frame that parses
onmessageOnPage(p, hiddenTypes, hiddenRels, toggling, data) ==
    IF data.type = "delta"
    THEN applyDeltaUpdateOnPage(p, hiddenTypes, hiddenRels, toggling, data)
    ELSE updateGraphDataOnPage(p, hiddenTypes, hiddenRels, toggling, data)

(***************************************************************************)
(* SpecPage: the page under any sequence of messages and legend toggles.   *)
(***************************************************************************)
\* the snapshots the server's messages are made from: a configmap (hidden by
\* default) whose Status changes, a pod, and the link between them
PageGraphs ==
    {MkGraph(ns, ls) :
        ns \in {<<>>,
                <<MkNode("a", "configmap", "Active", KeysAB),
                  MkNode("a-a", "pod", "Running", <<>>)>>,
                <<MkNode("a", "configmap", "Terminating", KeysAB),
                  MkNode("a-a", "pod", "Running", <<>>)>>},
        ls \in {<<>>, <<MkLink("a", "a-a", "contains")>>}}

\* the frames the server can send: the full update of a snapshot, and the update
\* the tracker returns for a snapshot while it holds another one
PageMessages ==
    {ToJSON(fullUpdate(g)) : g \in PageGraphs}
        \cup {ToJSON(du) : du \in
                {d \in UNION {deltaResults(nodeMap(g1.Nodes), linkMap(g1.Links), g2) :
                                 g1 \in PageGraphs, g2 \in PageGraphs} :
                    d.kind = "update"}}

\* the legend items that are clicked in a run
ToggledTypes == {"configmap"}
ToggledRelationships == {"contains"}

\* ws.onmessage
Message(m) ==
    /\ LET r == onmessageOnPage(Page(originalData, scene, currentFilteredData),
                    hiddenResourceTypes, hiddenRelationshipTypes, isUpdatingFromToggle, m)
       IN /\ Len(r.page.mirror.links) <= MaxMirrorLinks
          /\ originalData' = r.page.mirror
          /\ scene' = r.page.scene
          /\ currentFilteredData' = r.page.view
          /\ handled' = Handled("message", m.type, r.path)
    /\ isInitialized' = TRUE
    /\ UNCHANGED <<hiddenResourceTypes, hiddenRelationshipTypes, isUpdatingFromToggle,
                   applyTimers, toggleTimeout>>

\* applyFilterAndUpdate up to its setTimeout
applyFilterAndUpdate == applyTimers' = IF originalData.null THEN applyTimers ELSE applyTimers + 1

toggleResourceType(type) ==
    /\ applyTimers < MaxTimers
    /\ isUpdatingFromToggle' = TRUE
    /\ hiddenResourceTypes' =
          IF type \in hiddenResourceTypes
          THEN hiddenResourceTypes \ {type} ELSE hiddenResourceTypes \cup {type}
    /\ applyFilterAndUpdate
    /\ toggleTimeout' = TRUE
    /\ handled' = Handled("toggleResourceType", "", "")
    /\ UNCHANGED <<originalData, scene, currentFilteredData, hiddenRelationshipTypes,
                   isInitialized>>

toggleRelationshipType(relationship) ==
    /\ applyTimers < MaxTimers
    /\ isUpdatingFromToggle' = TRUE
    /\ hiddenRelationshipTypes' =
          IF relationship \in hiddenRelationshipTypes
          THEN hiddenRelationshipTypes \ {relationship}
          ELSE hiddenRelationshipTypes \cup {relationship}
    /\ applyFilterAndUpdate
    /\ toggleTimeout' = TRUE
    /\ handled' = Handled("toggleRelationshipType", "", "")
    /\ UNCHANGED <<originalData, scene, currentFilteredData, hiddenResourceTypes,
                   isInitialized>>

\* the callback applyFilterAndUpdate sets a timer for (100 ms): the scene is given
\* the mirror's own visible objects; filterGraphData throws without a node collection
FilterTimer ==
    /\ applyTimers > 0
    /\ applyTimers' = applyTimers - 1
    /\ IF "nodes" \notin originalData.keys
       THEN /\ handled' = Handled("filter timer", "", "threw")
            /\ UNCHANGED <<originalData, scene, currentFilteredData>>
       ELSE LET filteredData ==
                    filterGraphData(originalData, hiddenResourceTypes, hiddenRelationshipTypes)
            IN /\ scene' = graphData(filteredData)
               /\ currentFilteredData' = graphData(filteredData)
               /\ originalData' =
                     [originalData EXCEPT
                         !.links = shareWithScene(@, 0, Range(filteredData.links))]
               /\ handled' = Handled("filter timer", "", "applied")
    /\ UNCHANGED <<hiddenResourceTypes, hiddenRelationshipTypes, isUpdatingFromToggle,
                   toggleTimeout, isInitialized>>

\* the callback held in toggleTimeout (150 ms after the last toggle, so after
\* every filter timer); handled notes whether the event before it was a message
\* whose graph update was skipped
ToggleTimer ==
    /\ toggleTimeout
    /\ applyTimers = 0
    /\ isUpdatingFromToggle' = FALSE
    /\ toggleTimeout' = FALSE
    /\ handled' = Handled("toggle timer", "",
                          IF handled.path = "toggle in progress"
                          THEN "after a skipped message" ELSE "")
    /\ UNCHANGED <<originalData, scene, currentFilteredData, hiddenResourceTypes,
                   hiddenRelationshipTypes, applyTimers, isInitialized>>

InitPage == TrackerInit /\ ClientIdle /\ PageLoaded /\ SocketConnecting /\ EqIdle /\ NewHub

NextPage ==
    \/ \E m \in PageMessages :
          Message(m) /\ UNCHANGED <<trackerVars, rtPhase, socketVars, eqVars, hubVars>>
    \/ \E type \in ToggledTypes :
          toggleResourceType(type)
              /\ UNCHANGED <<trackerVars, rtPhase, socketVars, eqVars, hubVars>>
    \/ \E relationship \in ToggledRelationships :
          toggleRelationshipType(relationship)
              /\ UNCHANGED <<trackerVars, rtPhase, socketVars, eqVars, hubVars>>
    \/ FilterTimer /\ UNCHANGED <<trackerVars, rtPhase, socketVars, eqVars, hubVars>>
    \/ ToggleTimer /\ UNCHANGED <<trackerVars, rtPhase, socketVars, eqVars, hubVars>>

SpecPage == InitPage /\ [][NextPage]_vars

(***************************************************************************)
(* Properties of the page, checked under SpecPage.                         *)
(***************************************************************************)
Ids_(nodes) == {nodes[i].Id : i \in DOMAIN nodes}
Keys_(links) == {idKey(links[i]) : i \in DOMAIN links}

\* the visible subgraph of the mirror under the legend as it stands
Visible(mirror, hiddenTypes, hiddenRels) == filterGraphData(mirror, hiddenTypes, hiddenRels)

\* the scene shows a subgraph: the same node ids and the same link keys
Shows(sc, subgraph) ==
    /\ Ids_(sc.nodes) = Ids_(subgraph.nodes)
    /\ Keys_(sc.links) = Keys_(subgraph.links)

\* C21: after the page has processed a "full" message, the mirror's nodes and
\* links are the message's collections whatever the mirror held before, and the
\* visible subgraph is recomputed from the new mirror (the scene shows it).
C21_FullReplacesMirrorAndView ==
    [][\A m \in PageMessages :
          (m.type = "full" /\ Message(m)) =>
              /\ originalData'.nodes = m.nodes
              /\ originalData'.links = m.links
              /\ Shows(scene', Visible(originalData', hiddenResourceTypes',
                                       hiddenRelationshipTypes'))]_vars

\* C21, the part that holds: the mirror takes the collections of the message
C21_FullReplacesMirror ==
    [][\A m \in PageMessages :
          (m.type = "full" /\ Message(m)) =>
              originalData'.nodes = m.nodes /\ originalData'.links = m.links]_vars

\* C21, for a message that has both collections and is not the mirrored data,
\* with no toggle in progress
C21_ViewWhenComplete ==
    [][\A m \in PageMessages :
          (/\ m.type = "full" /\ Message(m)
           /\ {"nodes", "links"} \subseteq m.present
           /\ ~identical(originalData, m)
           /\ ~isUpdatingFromToggle) =>
              Shows(scene', Visible(originalData', hiddenResourceTypes',
                                    hiddenRelationshipTypes'))]_vars

\* a link with its endpoints read as ids
asIds(l) == [l EXCEPT !.Source = endpointId(@), !.Target = endpointId(@)]

\* a delta message handled by a page whose mirror has both collections
DeltaStep(m) ==
    /\ m.type = "delta"
    /\ {"nodes", "links"} \subseteq originalData.keys
    /\ Message(m)

RemovedIds(m) == IF "removed_nodes" \in m.present THEN Range(m.removed_nodes) ELSE {}
RemovedPairs(m) == IF "removed_links" \in m.present THEN Range(m.removed_links) ELSE {}
AddedNodes(m) == IF "nodes" \in m.present THEN Range(m.nodes) ELSE {}
AddedLinks(m) == IF "links" \in m.present THEN Range(m.links) ELSE {}

\* what C22 asks of the mirror after a delta: a node with a removed id, a link
\* that touches a removed id, and a link with a removed (Source, Target) pair are
\* in the mirror only if the message itself adds them
RemovalsDone(mirror, m) ==
    /\ \A n \in Range(mirror.nodes) : n.Id \in RemovedIds(m) => n \in AddedNodes(m)
    /\ \A l \in Range(mirror.links) :
          (asIds(l).Source \in RemovedIds(m) \/ asIds(l).Target \in RemovedIds(m))
              => asIds(l) \in AddedLinks(m)
    /\ \A l \in Range(mirror.links) :
          LinkRef(asIds(l)) \in RemovedPairs(m) => asIds(l) \in AddedLinks(m)

EndpointsAreIds(mirror) ==
    \A l \in Range(mirror.links) : ~isObject(l.Source) /\ ~isObject(l.Target)

\* C22: applying a delta removes from the mirror every node whose id is in
\* RemovedNodes and every link that touches a removed id, listed in RemovedLinks
\* or not, then every link whose (Source, Target) pair is in RemovedLinks, all
\* before the nodes and links of the delta are added.
C22_DeltaRemovals ==
    [][\A m \in PageMessages : DeltaStep(m) => RemovalsDone(originalData', m)]_vars

\* C22 for a mirror whose links all hold ids as endpoints
C22_WhenEndpointsAreIds ==
    [][\A m \in PageMessages :
          (DeltaStep(m) /\ EndpointsAreIds(originalData))
              => RemovalsDone(originalData', m)]_vars

\* at most one node per id and at most one link per (Source, Target) pair
AtMostOne(mirror) ==
    /\ \A i, j \in DOMAIN mirror.nodes : mirror.nodes[i].Id = mirror.nodes[j].Id => i = j
    /\ \A i, j \in DOMAIN mirror.links :
          LinkRef(asIds(mirror.links[i])) = LinkRef(asIds(mirror.links[j])) => i = j

\* every node of the message is the single entry of its id, with the message's
\* fields; every link of the message has its pair in the mirror
Upserted(mirror, m) ==
    /\ \A n \in AddedNodes(m) :
          /\ Cardinality({i \in DOMAIN mirror.nodes : mirror.nodes[i].Id = n.Id}) = 1
          /\ n \in Range(mirror.nodes)
    /\ \A l \in AddedLinks(m) :
          \E i \in DOMAIN mirror.links : LinkRef(asIds(mirror.links[i])) = LinkRef(l)

\* C23: applying a delta upserts each node of Nodes (one entry per id, holding
\* the message's values) and appends each link of Links only if its (Source,
\* Target) pair is not in the mirror yet; a mirror with at most one node per id
\* and one link per pair is still such a mirror after the delta.
C23_UpsertKeepsOnePerKey ==
    [][\A m \in PageMessages :
          (DeltaStep(m) /\ AtMostOne(originalData))
              => (Upserted(originalData', m) /\ AtMostOne(originalData'))]_vars

\* C23 for a mirror whose links all hold ids as endpoints
C23_WhenEndpointsAreIds ==
    [][\A m \in PageMessages :
          (DeltaStep(m) /\ AtMostOne(originalData) /\ EndpointsAreIds(originalData))
              => (Upserted(originalData', m) /\ AtMostOne(originalData'))]_vars

\* the visible subgraph as C24 describes it: the nodes whose type is not hidden,
\* and the links whose relationship is not hidden and whose endpoints are both
\* among those nodes
VisibleNodes(mirror, hiddenTypes) == {n \in Range(mirror.nodes) : n.Type \notin hiddenTypes}

VisibleLinks(mirror, hiddenTypes, hiddenRels) ==
    {l \in Range(mirror.links) :
        /\ l.Relationship \notin hiddenRels
        /\ \E n \in VisibleNodes(mirror, hiddenTypes) : n.Id = asIds(l).Source
        /\ \E n \in VisibleNodes(mirror, hiddenTypes) : n.Id = asIds(l).Target}

\* C24: filterGraphData returns exactly the mirror nodes whose type is not hidden
\* and exactly the mirror links whose relationship is not hidden and whose
\* source and target are both visible nodes, so every visible link has both
\* endpoints in the visible node set; the filter timer puts exactly that
\* subgraph into the scene.
C24_VisibleSubgraph ==
    "nodes" \in originalData.keys =>
        LET v == filterGraphData(originalData, hiddenResourceTypes, hiddenRelationshipTypes)
        IN /\ Range(v.nodes) = VisibleNodes(originalData, hiddenResourceTypes)
           /\ Range(v.links)
                = VisibleLinks(originalData, hiddenResourceTypes, hiddenRelationshipTypes)
           /\ \A l \in Range(v.links) :
                 asIds(l).Source \in Ids_(v.nodes) /\ asIds(l).Target \in Ids_(v.nodes)
           /\ (handled = Handled("filter timer", "", "applied") =>
                 /\ Range(scene.nodes) = VisibleNodes(originalData, hiddenResourceTypes)
                 /\ Range(scene.links)
                      = VisibleLinks(originalData, hiddenResourceTypes,
                                     hiddenRelationshipTypes))

\* the filter timer has run on a mirror with a hidden node and a visible node,
\* and the link between them was left out
C24_Witness ==
    /\ handled = Handled("filter timer", "", "applied")
    /\ Len(originalData.links) > 0
    /\ Len(scene.nodes) > 0
    /\ Len(scene.nodes) < Len(originalData.nodes)
    /\ scene.links = <<>>

\* the filter timer has run with every node visible and the relationship hidden
C24_WitnessRelationship ==
    /\ handled = Handled("filter timer", "", "applied")
    /\ Len(originalData.links) > 0
    /\ Len(scene.nodes) = Len(originalData.nodes)
    /\ scene.links = <<>>
    /\ hiddenRelationshipTypes # {}

\* C25: when an incoming full message is identical to the mirrored data,
\* updateGraphData returns without changing the mirror, the filtered view or the
\* rendered scene.
C25_IdenticalFullIsSkipped ==
    [][\A m \in PageMessages :
          (m.type = "full" /\ originalData = copyOfMessage(m) /\ Message(m))
              => /\ originalData' = originalData
                 /\ currentFilteredData' = currentFilteredData
                 /\ scene' = scene]_vars

\* a full message with nodes and links has been skipped as identical
C25_Witness ==
    /\ handled = Handled("message", "full", "identical")
    /\ Len(originalData.nodes) > 0
    /\ Len(originalData.links) > 0

(***************************************************************************)
(* SpecSocket: the page's connection, closing and reconnecting, and the    *)
(* frames it is sent while the connection is open.                         *)
(***************************************************************************)
\* faulty variant: the delay is doubled without a cap
nextInterval_uncapped(interval) == interval * 2

\* Math.min(reconnectInterval * 2, maxReconnectInterval)
nextInterval(interval) ==
    IF interval * 2 < maxReconnectInterval THEN interval * 2 ELSE maxReconnectInterval

\* the snapshots behind the frames of a socket run
SocketGraphs ==
    {MkGraph(<<MkNode("a", "configmap", "Active", KeysAB),
               MkNode("a-a", "pod", "Running", <<>>)>>, ls) :
        ls \in {<<>>, <<MkLink("a", "a-a", "contains")>>}}
        \cup {MkGraph(<<MkNode("a-a", "pod", "Running", <<>>)>>, <<>>)}

SocketMessages ==
    {ToJSON(fullUpdate(g)) : g \in SocketGraphs}
        \cup {ToJSON(du) : du \in
                {d \in UNION {deltaResults(nodeMap(g1.Nodes), linkMap(g1.Links), g2) :
                                 g1 \in SocketGraphs, g2 \in SocketGraphs} :
                    d.kind = "update"}}

\* ws.onopen
onopen ==
    /\ ws = "connecting"
    /\ Len(closes) < MaxCloses
    /\ ws' = "open"
    /\ reconnectInterval' = initialReconnectInterval
    /\ closes' = Append(closes, 0)
    /\ UNCHANGED <<reconnectTimers, requests>>

\* ws.onclose, of a connection that was open or of an attempt that failed
onclose ==
    /\ ws \in {"connecting", "open"}
    /\ Len(closes) < MaxCloses
    /\ ws' = "closed"
    /\ reconnectTimers' = reconnectTimers + 1
    /\ closes' = Append(closes, reconnectInterval)
    /\ reconnectInterval' = nextInterval(reconnectInterval)
    /\ UNCHANGED requests

\* connectWebSocket, called by the timer that ws.onclose has set
connectWebSocket ==
    /\ reconnectTimers > 0
    /\ reconnectTimers' = reconnectTimers - 1
    /\ ws' = "connecting"
    /\ UNCHANGED <<reconnectInterval, closes, requests>>

\* ws.onmessage of the open connection
SocketMessage(m) == ws = "open" /\ Message(m)

InitSocket == TrackerInit /\ ClientIdle /\ PageLoaded /\ SocketConnecting /\ EqIdle /\ NewHub

NextSocket ==
    \/ onopen /\ UNCHANGED <<trackerVars, clientVars, pageVars, eqVars, hubVars>>
    \/ onclose /\ UNCHANGED <<trackerVars, clientVars, pageVars, eqVars, hubVars>>
    \/ connectWebSocket /\ UNCHANGED <<trackerVars, clientVars, pageVars, eqVars, hubVars>>
    \/ \E m \in SocketMessages :
          SocketMessage(m) /\ UNCHANGED <<trackerVars, rtPhase, socketVars, eqVars, hubVars>>

SpecSocket == InitSocket /\ [][NextSocket]_vars

(***************************************************************************)
(* Properties of the connection, checked under SpecSocket.                 *)
(***************************************************************************)
\* the delay a close uses: 1000 ms for the first close of the page and for the
\* first close after an open, else twice the delay before it, 30000 ms at most
ExpectedDelay(i) ==
    IF i = 1 \/ closes[i - 1] = 0 THEN 1000
    ELSE IF closes[i - 1] * 2 > 30000 THEN 30000 ELSE closes[i - 1] * 2

\* C26: the reconnect delay starts at 1000 ms, doubles after every close, never
\* exceeds 30000 ms and is back at 1000 ms after every open; every close
\* schedules exactly one reconnect attempt; the page sends no frame, and the
\* full message it is sent after reconnecting replaces the mirror.
C26_ReconnectBackoff ==
    /\ [](/\ \A i \in DOMAIN closes : closes[i] # 0 => closes[i] = ExpectedDelay(i)
          /\ reconnectInterval >= 1000 /\ reconnectInterval <= 30000
          /\ (ws = "closed") = (reconnectTimers = 1)
          /\ reconnectTimers <= 1
          /\ requests = 0)
    /\ [][/\ (ws # "closed" /\ ws' = "closed") => reconnectTimers' = reconnectTimers + 1
          /\ (ws # "open" /\ ws' = "open") => reconnectInterval' = 1000
          /\ \A m \in SocketMessages :
                (m.type = "full" /\ SocketMessage(m))
                    => originalData'.nodes = m.nodes /\ originalData'.links = m.links]_vars

\* the delay has reached the cap, the connection opened, and the next close used
\* 1000 ms again
C26_Witness ==
    /\ ws = "closed"
    /\ reconnectTimers = 1
    /\ \E i \in DOMAIN closes :
          /\ i + 2 \in DOMAIN closes
          /\ closes[i] = 30000 /\ closes[i + 1] = 0 /\ closes[i + 2] = 1000
    /\ reconnectInterval = 2000

\* after a close and a reconnect, a full message has replaced a mirror that held
\* other data
C26_WitnessResync ==
    /\ ws = "open"
    /\ \E i \in DOMAIN closes : closes[i] # 0 /\ closes[Len(closes)] = 0
    /\ handled = Handled("message", "full", "incremental-structural")
    /\ Len(originalData.links) > 0

(***************************************************************************)
(* SpecRun: the hub with its handoffs taken apart.  A connection offers    *)
(* itself on h.register and waits; a read loop that ended offers itself on *)
(* h.unregister and waits; a fetch is in flight from the moment it is      *)
(* started until GetGraph returns.  Only the cases of Run's select are     *)
(* fair: a fetch may take for ever, a peer may never leave.                *)
(***************************************************************************)
\* ticks of the ticker goroutine in a run of SpecRun
MaxRunTicks == 2

\* HandleWebSocket up to client.hub.register <- client, on which it blocks
HandleWebSocket(c) ==
    /\ Running /\ rp[c] = "none"
    /\ c = "c2" => rp["c1"] # "none"
    /\ rp' = [rp EXCEPT ![c] = "registering"]
    /\ UNCHANGED <<clients, send, boot, wp, pending, ticks, lastTick, enqueued, taken, panicked>>

\* case client := <-h.register: the consumer is added and its sendInitialData
\* goroutine started; HandleWebSocket, released, starts the two pumps
RunRegister(c) ==
    /\ Running /\ rp[c] = "registering"
    /\ clients' = clients \cup {c}
    /\ boot' = [boot EXCEPT ![c] = "fetch"]
    /\ rp' = [rp EXCEPT ![c] = "reading"]
    /\ wp' = [wp EXCEPT ![c] = "running"]
    /\ UNCHANGED <<send, pending, ticks, lastTick, enqueued, taken, panicked>>

\* readPump: ReadMessage fails (the peer left, a protocol error, or the read
\* deadline passed); the deferred function blocks on c.hub.unregister <- c
readPump(c) ==
    /\ Running /\ rp[c] = "reading"
    /\ rp' = [rp EXCEPT ![c] = "unregistering"]
    /\ UNCHANGED <<clients, send, boot, wp, pending, ticks, lastTick, enqueued, taken, panicked>>

\* case client := <-h.unregister: a consumer still in h.clients is deleted and its
\* queue closed; the read loop, released, closes the connection
RunUnregister(c) ==
    /\ Running /\ rp[c] = "unregistering"
    /\ rp' = [rp EXCEPT ![c] = "done"]
    /\ IF c \in clients
       THEN /\ clients' = clients \ {c}
            /\ IF send[c].closed
               THEN panicked' = "close of closed channel" /\ UNCHANGED send
               ELSE send' = [send EXCEPT ![c].closed = TRUE] /\ UNCHANGED panicked
       ELSE UNCHANGED <<clients, send, panicked>>
    /\ UNCHANGED <<boot, wp, pending, ticks, lastTick, enqueued, taken>>

\* the ticker goroutine receives from ticker.C: with consumers registered it
\* enters fetchAndBroadcast and its GetGraph call
tickerFires ==
    /\ Running /\ pending.pc = "idle" /\ ticks < MaxRunTicks
    /\ ticks' = ticks + 1
    /\ pending' = IF hasClients(clients) THEN [pc |-> "fetch", msg |-> NoMsg] ELSE pending
    /\ UNCHANGED <<clients, send, boot, rp, wp, lastTick, enqueued, taken, panicked, trackerVars>>

\* fetchAndBroadcast from the return of GetGraph to its send on h.broadcast, on
\* which the ticker goroutine then blocks
fetchAndBroadcast ==
    /\ Running /\ pending.pc = "fetch"
    /\ UNCHANGED <<clients, send, boot, rp, wp, ticks, lastTick, enqueued, taken, panicked>>
    /\ \E r \in GetGraphResults :
          IF fetchFailed(r)
          THEN /\ pending' = [pc |-> "idle", msg |-> NoMsg]
               /\ UNCHANGED trackerVars
          ELSE /\ GenerateDelta(r.graph)
               /\ pending' = IF ret'.kind = "update"
                             THEN [pc |-> "send", msg |-> ToJSON(ret')]
                             ELSE [pc |-> "idle", msg |-> NoMsg]

notRun == <<trackerVars, clientVars, pageVars, socketVars, eqVars>>

RunRegisters(c) == RunRegister(c) /\ UNCHANGED notRun
RunUnregisters(c) == RunUnregister(c) /\ UNCHANGED notRun
RunBroadcasts == Broadcast /\ UNCHANGED notRun

InitRun == InitHub

NextRun ==
    \/ \E c \in Clients : HandleWebSocket(c) /\ UNCHANGED notRun
    \/ \E c \in Clients : RunRegisters(c)
    \/ \E c \in Clients : Bootstrap(c) /\ UNCHANGED notRun
    \/ \E c \in Clients : BootstrapDelete(c) /\ UNCHANGED notRun
    \/ tickerFires /\ UNCHANGED <<clientVars, pageVars, socketVars, eqVars>>
    \/ fetchAndBroadcast /\ UNCHANGED <<clientVars, pageVars, socketVars, eqVars>>
    \/ RunBroadcasts
    \/ \E c \in Clients : readPump(c) /\ UNCHANGED notRun
    \/ \E c \in Clients : RunUnregisters(c)
    \/ \E c \in Clients : WriteMessage(c) /\ UNCHANGED notRun
    \/ \E c \in Clients : WriteEnd(c) /\ UNCHANGED notRun

\* Run is a loop around one select: a sender blocked on h.register, h.unregister
\* or h.broadcast stays ready until it is received from, and select chooses among
\* the ready cases at random, so no ready case is passed over for ever
RunIsFair ==
    /\ \A c \in Clients : WF_vars(RunRegisters(c)) /\ WF_vars(RunUnregisters(c))
    /\ WF_vars(RunBroadcasts)

SpecRun == InitRun /\ [][NextRun]_vars /\ RunIsFair

(***************************************************************************)
(* Properties of the Run loop, checked under SpecRun.                      *)
(***************************************************************************)
\* a handoff is pending: its sender is blocked on h.register or h.unregister
Offered(c) == rp[c] \in {"registering", "unregistering"}

\* a collector fetch is in flight, started by a tick or by a bootstrap
FetchInFlight == pending.pc = "fetch" \/ \E c \in Clients : boot[c] = "fetch"

\* C29: whatever the collector fetches in flight do, be it returning late or never,
\* every register and every unregister handoff that is pending is accepted by the
\* Run loop later on, and the Run loop is never held up inside a handler: the hub
\* is running and ready to take the handoff whenever one is pending.
C29_SlowFetchNeverStallsRun ==
    /\ \A c \in Clients : rp[c] = "registering" ~> rp[c] = "reading"
    /\ \A c \in Clients : rp[c] = "unregistering" ~> rp[c] = "done"
    /\ [](\A c \in Clients : Offered(c) => Running)

\* the same, for as long as the hub process has not panicked
C29_WhileHubRuns ==
    /\ \A c \in Clients : rp[c] = "registering" ~> (rp[c] = "reading" \/ ~Running)
    /\ \A c \in Clients : rp[c] = "unregistering" ~> (rp[c] = "done" \/ ~Running)
    /\ [](\A c \in Clients :
            (Offered(c) /\ Running) =>
                ENABLED (RunRegisters(c) \/ RunUnregisters(c)))

\* a handoff was accepted while a fetch was, and still is, in flight
C29_FetchStillInFlight ==
    /\ boot["c1"] = "fetch" /\ pending.pc = "fetch"
    /\ rp["c1"] = "done" /\ rp["c2"] = "reading"

\* the step is Run's unregister case taken for consumer c
UnregisterStep(c) == rp[c] = "unregistering" /\ rp'[c] = "done"

\* consumer c is out of the consumer set with its queue closed
Dropped(c) == rp[c] = "done" /\ c \notin clients /\ send[c].closed

\* every consumer but c is a member as before, with its queue as before
OthersUntouched(c) ==
    \A o \in Clients \ {c} : send'[o] = send[o] /\ (o \in clients' <=> o \in clients)

\* C30: once a consumer's read loop has ended the consumer is, later on, out of
\* the consumer set with its send queue closed; the queue is never closed a second
\* time, whether or not the hub had evicted the consumer before; and the step that
\* unregisters it leaves the membership and the queue of every other consumer alone.
C30_ReadLoopEndUnregisters ==
    /\ \A c \in Clients : rp[c] = "unregistering" ~> Dropped(c)
    /\ [](panicked # "close of closed channel")
    /\ [][\A c \in Clients : UnregisterStep(c) => OthersUntouched(c)]_vars

\* the same, for as long as the hub process has not panicked
C30_WhileHubRuns ==
    /\ \A c \in Clients : rp[c] = "unregistering" ~> (Dropped(c) \/ ~Running)
    /\ [][\A c \in Clients :
            (UnregisterStep(c) /\ panicked' = "") => (Dropped(c)' /\ OthersUntouched(c))]_vars

\* a read loop ended after the hub had evicted its consumer in a fan-out, the other
\* consumer being registered with a message queued
C30_AlreadyEvicted ==
    /\ rp["c1"] = "done" /\ Dropped("c1") /\ boot["c1"] = "fetch"
    /\ panicked = ""
    /\ "c2" \in clients /\ send["c2"].buf # <<>> /\ ~send["c2"].closed

(***************************************************************************)
(* SpecAge: the tracker fed with snapshots whose node "a" carries the Age  *)
(* string the collector derives from the time since the node's creation.  *)
(***************************************************************************)
\* fmt's %.0f of n/d: the nearest integer, a tie going to the even one
roundHalfEven(n, d) ==
    LET q == n \div d
        twice == 2 * (n % d)
    IN IF twice < d THEN q
       ELSE IF twice > d THEN q + 1
       ELSE IF q % 2 = 0 THEN q ELSE q + 1

\* calculateAge(creationTime), given whether creationTime is the zero time and the
\* whole seconds of time.Since(creationTime.Time)
calculateAge(isZero, seconds) ==
    IF isZero THEN "Unknown"
    ELSE IF seconds < 60 THEN ToString(seconds) \o "s"
    ELSE IF seconds < 3600 THEN ToString(roundHalfEven(seconds, 60)) \o "m"
    ELSE IF seconds < 86400 THEN ToString(roundHalfEven(seconds, 3600)) \o "h"
    ELSE ToString(roundHalfEven(seconds, 86400)) \o "d"

\* the times since creation at which node "a" is collected
AgeSeconds == {59, 60, 89, 90, 150, 3599, 3600}

\* the Age strings of node "a" in the snapshots
Ages == {calculateAge(TRUE, 0)} \cup {calculateAge(FALSE, d) : d \in AgeSeconds}

\* the ConfigMap node "a" as the collector builds it, Age: calculateAge(...)
AgedNode(age) == [MkNode("a", "configmap", "Active", KeysAB) EXCEPT !.Age = age]

\* snapshots of node "a" at its ages, alone or with pod "a-a" and a link to it
AgeGraphs ==
    {MkGraph(ns, ls) :
        ns \in {<<AgedNode(age)>> : age \in Ages}
               \cup {<<AgedNode(age), MkNode("a-a", "pod", "Running", <<>>)>> : age \in Ages},
        ls \in {<<>>, <<MkLink("a", "a-a", "contains")>>}}

InitAge == Init

NextAge ==
    \E g \in AgeGraphs :
        GenerateDelta(g) /\ UNCHANGED <<clientVars, pageVars, socketVars, eqVars, hubVars>>

SpecAge == InitAge /\ [][NextAge]_vars

(***************************************************************************)
(* Properties of the tracker under ageing nodes, checked under SpecAge.    *)
(***************************************************************************)
\* snapshots G1 and G2 differ in the Age of their i-th node and in nothing else
AgeDiffers(G1, G2, i) ==
    /\ SameBut(G1, G2, i)
    /\ G2.Nodes[i] = [G1.Nodes[i] EXCEPT !.Age = G2.Nodes[i].Age]
    /\ G1.Nodes[i].Age # G2.Nodes[i].Age

\* the call just made returned a delta that carries the re-aged node and nothing else
AgeOnlyDelta ==
    /\ CalledAgain
    /\ \E i \in DOMAIN arg.Nodes :
          /\ AgeDiffers(before.held.g, arg, i)
          /\ ret = DeltaUpdate("delta", <<arg.Nodes[i]>>, <<>>, <<>>, <<>>)

\* C32: when two successive snapshots differ only in the Age string of node N, the
\* second call returns a delta whose Nodes holds N and which holds nothing else;
\* when the next snapshot carries the same Age again, the call returns nil.
C32_AgeOnlyChurn ==
    /\ [](CalledAgain =>
            ((\E i \in DOMAIN arg.Nodes : AgeDiffers(before.held.g, arg, i))
                => AgeOnlyDelta))
    /\ [][(AgeOnlyDelta /\ arg' = arg) => ret'.kind = "nil"]_vars

\* node "a" went from "1m" to "2m" between two snapshots that hold pod "a-a" and
\* the link as well: the delta carries node "a" alone
C32_Witness ==
    /\ AgeOnlyDelta
    /\ Len(arg.Nodes) = 2 /\ Len(arg.Links) = 1
    /\ before.held.g.Nodes[1].Age = calculateAge(FALSE, 89)
    /\ arg.Nodes[1].Age = calculateAge(FALSE, 90)

\* the snapshot that followed an Age-only delta carried the same Age: nil
C32_WitnessSettled ==
    /\ CalledAgain /\ arg = before.held.g /\ ret.kind = "nil"
    /\ arg.Nodes[1].Age = calculateAge(FALSE, 3600)

(***************************************************************************)
(* Properties of the rendered scene, checked under SpecPage.               *)
(***************************************************************************)
\* the scene shows the visible subgraph of the mirror as both stand after the step
SceneFollowsMirror ==
    /\ "nodes" \in originalData'.keys
    /\ Shows(scene', Visible(originalData', hiddenResourceTypes', hiddenRelationshipTypes'))

\* C33: after the page has processed a "delta" message with no filter toggle in
\* progress, the node ids and the link keys of the scene are those of
\* filterGraphData applied to the updated mirror.
C33_SceneFollowsMirrorAfterDelta ==
    [][\A m \in PageMessages :
          (m.type = "delta" /\ Message(m) /\ ~isUpdatingFromToggle)
              => SceneFollowsMirror]_vars

\* every link of the mirror has both its endpoints among the mirror's nodes
NoDangling(mirror) ==
    \A l \in Range(mirror.links) :
        asIds(l).Source \in Ids_(mirror.nodes) /\ asIds(l).Target \in Ids_(mirror.nodes)

\* C33 for a delta that finds the scene showing the visible subgraph of a mirror
\* that has both collections, ids as link endpoints and no dangling link
C33_WhenMirrorWellFormed ==
    [][\A m \in PageMessages :
          (/\ DeltaStep(m) /\ ~isUpdatingFromToggle
           /\ EndpointsAreIds(originalData) /\ NoDangling(originalData)
           /\ Shows(scene, Visible(originalData, hiddenResourceTypes,
                                   hiddenRelationshipTypes)))
              => SceneFollowsMirror]_vars

(***************************************************************************)
(* SpecUpdate: the page under any sequence of "full" messages whose nodes  *)
(* are all of visible types, so that every message reaches                 *)
(* performIncrementalUpdate.                                               *)
(***************************************************************************)
\* the variants of the pod: as collected, with another Status, and with only the
\* fields that calculateAge and the collector's resource info change
UpdatePods ==
    {MkNode("a-a", "pod", "Running", <<>>),
     MkNode("a-a", "pod", "Pending", <<>>),
     [MkNode("a-a", "pod", "Running", <<>>) EXCEPT !.Age = "6m"],
     [MkNode("a-a", "pod", "Running", <<>>) EXCEPT
         !.ResourceInfo = ("key_names" :> IfaceSlice(<<>>)) @@ ("data_count" :> Num(3))]}

UpdateService == MkNode("a", "service", "Active", <<>>)

UpdateSecondPod == MkNode("b", "pod", "Running", <<>>)

\* the service and the pod it exposes, with or without a second pod that is
\* exposed or not; and the service alone, whose message has no links field
UpdateGraphs ==
    {MkGraph(<<UpdateService, p>>, <<MkLink("a", "a-a", "exposes")>>) : p \in UpdatePods}
        \cup {MkGraph(<<UpdateService, p, UpdateSecondPod>>,
                      <<MkLink("a", "a-a", "exposes")>> \o ls) :
                 p \in UpdatePods, ls \in {<<>>, <<MkLink("a", "b", "exposes")>>}}
        \cup {MkGraph(<<UpdateService>>, <<>>)}

UpdateMessages == {ToJSON(fullUpdate(g)) : g \in UpdateGraphs}

InitUpdate == InitPage

NextUpdate ==
    \E m \in UpdateMessages :
        Message(m) /\ UNCHANGED <<trackerVars, rtPhase, socketVars, eqVars, hubVars>>

SpecUpdate == InitUpdate /\ [][NextUpdate]_vars

(***************************************************************************)
(* Properties of performIncrementalUpdate, checked under SpecUpdate.       *)
(***************************************************************************)
\* a "full" message that the page hands to performIncrementalUpdate
UpdateStep(m) ==
    /\ m.type = "full"
    /\ {"nodes", "links"} \subseteq m.present
    /\ ~identical(originalData, m)
    /\ ~isUpdatingFromToggle
    /\ Message(m)

\* the visible set performIncrementalUpdate is given for a message
NewVisible(m) ==
    filterGraphData(updateGraphData(originalData, m),
                    hiddenResourceTypes, hiddenRelationshipTypes)

\* some field other than the id differs
FieldsChanged(a, b) == [a EXCEPT !.Id = ""] # [b EXCEPT !.Id = ""]

Pairs_(links) == {LinkRef(asIds(links[i])) : i \in DOMAIN links}

\* the rendered node of an id
Rendered(sc, id) == CHOOSE n \in Range(sc.nodes) : n.Id = id

NodesAddedAndRemoved(sc, new) ==
    LET c == changes(sc, new)
    IN /\ Range(c.nodesToAdd) = {n \in Range(new.nodes) : n.Id \notin Ids_(sc.nodes)}
       /\ Ids_(c.nodesToRemove) = Ids_(sc.nodes) \ Ids_(new.nodes)

NodesUpdated(sc, new) ==
    Range(changes(sc, new).nodesToUpdate)
        = {n \in Range(new.nodes) :
              n.Id \in Ids_(sc.nodes) /\ FieldsChanged(Rendered(sc, n.Id), n)}

LinksAddedAndRemoved(sc, new) ==
    LET c == changes(sc, new)
    IN /\ Range(c.linksToAdd)
            = {l \in Range(new.links) : LinkRef(asIds(l)) \notin Pairs_(sc.links)}
       /\ Range(c.linksToRemove)
            = {l \in Range(sc.links) : LinkRef(asIds(l)) \notin Pairs_(new.links)}

\* C34: performIncrementalUpdate partitions the change between the rendered set
\* and the new visible set: a node is added iff its id is newly visible, removed
\* iff it is rendered and no longer visible, updated iff it is in both and one of
\* its fields other than the id changed; a link is added or removed by the same
\* rule on its (source, target) pair.
C34_PartitionOfChange ==
    [][\A m \in UpdateMessages :
          UpdateStep(m) =>
              /\ NodesAddedAndRemoved(scene, NewVisible(m))
              /\ NodesUpdated(scene, NewVisible(m))
              /\ LinksAddedAndRemoved(scene, NewVisible(m))]_vars

\* C34 without the update set
C34_AddedAndRemoved ==
    [][\A m \in UpdateMessages :
          UpdateStep(m) =>
              /\ NodesAddedAndRemoved(scene, NewVisible(m))
              /\ LinksAddedAndRemoved(scene, NewVisible(m))]_vars

\* C34, the update set by the fields nodeEquals reads
C34_UpdatedByComparedFields ==
    [][\A m \in UpdateMessages :
          UpdateStep(m) =>
              Range(changes(scene, NewVisible(m)).nodesToUpdate)
                  = {n \in Range(NewVisible(m).nodes) :
                        /\ n.Id \in Ids_(scene.nodes)
                        /\ ~nodeEquals(Rendered(scene, n.Id), n)}]_vars

\* a rendered pod whose Age in the mirror is newer than the one the scene holds
C34_StaleAge ==
    /\ handled.path = "incremental-no-changes"
    /\ \E n \in Range(scene.nodes), o \in Range(originalData.nodes) :
          n.Id = o.Id /\ n.Age # o.Age

\* the rendered set and the new visible set have the same node ids and the same
\* (source, target) pairs
SameStructure(sc, new) ==
    /\ Ids_(sc.nodes) = Ids_(new.nodes)
    /\ Pairs_(sc.links) = Pairs_(new.links)

\* the scene keeps its collections: the same links, the same nodes in the same
\* places, and the nodes found changed carry their new fields
UpdatedInPlace(sc, after, new) ==
    /\ after.links = sc.links
    /\ Len(after.nodes) = Len(sc.nodes)
    /\ \A i \in DOMAIN sc.nodes : after.nodes[i].Id = sc.nodes[i].Id
    /\ Range(changes(sc, new).nodesToUpdate) \subseteq Range(after.nodes)

\* the scene is the rendered set minus the removals plus the additions
Restructured(sc, after, new) ==
    LET c == changes(sc, new)
    IN /\ Ids_(after.nodes) = (Ids_(sc.nodes) \ Ids_(c.nodesToRemove)) \cup Ids_(c.nodesToAdd)
       /\ Pairs_(after.links)
             = (Pairs_(sc.links) \ Pairs_(c.linksToRemove)) \cup Pairs_(c.linksToAdd)

\* C35: in performIncrementalUpdate, when no node or link is added or removed the
\* scene's node and link collections are not replaced (changed nodes are updated
\* in place); when a node or link is added or removed the scene is set to the
\* rendered set minus the removals plus the additions, which is the new visible
\* set by id and link key.
C35_PropertyOrStructuralUpdate ==
    [][\A m \in UpdateMessages :
          UpdateStep(m) =>
              IF SameStructure(scene, NewVisible(m))
              THEN /\ handled'.path \in {"incremental-properties", "incremental-no-changes"}
                   /\ UpdatedInPlace(scene, scene', NewVisible(m))
              ELSE /\ handled'.path = "incremental-structural"
                   /\ Restructured(scene, scene', NewVisible(m))
                   /\ Shows(scene', NewVisible(m))]_vars

\* a Status change of a rendered pod was applied in place
C35_Witness ==
    /\ handled.path = "incremental-properties"
    /\ \E n \in Range(scene.nodes) : n.Id = "a-a" /\ n.Status = "Pending"
    /\ Len(scene.links) = 1

\* a link and a node were removed from the scene
C35_WitnessStructural ==
    /\ handled.path = "incremental-structural"
    /\ Len(scene.nodes) = 2
    /\ Len(scene.links) = 1
    /\ Len(currentFilteredData.nodes) = 2

(***************************************************************************)
(* SpecParse: the page under any sequence of frames, some of which are not *)
(* JSON, and toggles of a resource type.                                   *)
(***************************************************************************)
\* faulty variant: the handler gives up the mirror when a frame does not parse
ParseError_mirrorDropped ==
    /\ handled' = Handled("message", "", "parse error")
    /\ originalData' = MkMirror(<<>>, <<>>)
    /\ UNCHANGED <<scene, currentFilteredData, hiddenResourceTypes,
                   hiddenRelationshipTypes, isUpdatingFromToggle, applyTimers,
                   toggleTimeout, isInitialized>>

\* ws.onmessage for a frame that JSON.parse rejects: the exception is thrown
\* before isInitialized is read and is caught by the handler, which logs it and
\* sets the status line
ParseError ==
    /\ handled' = Handled("message", "", "parse error")
    /\ UNCHANGED <<originalData, scene, currentFilteredData, hiddenResourceTypes,
                   hiddenRelationshipTypes, isUpdatingFromToggle, applyTimers,
                   toggleTimeout, isInitialized>>

InitParse == InitPage

NextParse ==
    \/ \E m \in PageMessages :
          Message(m) /\ UNCHANGED <<trackerVars, rtPhase, socketVars, eqVars, hubVars>>
    \/ \E type \in ToggledTypes :
          toggleResourceType(type)
              /\ UNCHANGED <<trackerVars, rtPhase, socketVars, eqVars, hubVars>>
    \/ FilterTimer /\ UNCHANGED <<trackerVars, rtPhase, socketVars, eqVars, hubVars>>
    \/ ToggleTimer /\ UNCHANGED <<trackerVars, rtPhase, socketVars, eqVars, hubVars>>
    \/ ParseError /\ UNCHANGED <<trackerVars, rtPhase, socketVars, eqVars, hubVars>>

SpecParse == InitParse /\ [][NextParse]_vars

(***************************************************************************)
(* Properties of ws.onmessage, checked under SpecParse.                    *)
(***************************************************************************)
\* the step of a frame that did not parse
ParseErrorStep == handled'.path = "parse error"

\* what ws.onmessage makes of a frame that parses, from the page as it stands
AsHandled(m) ==
    onmessageOnPage(Page(originalData, scene, currentFilteredData),
                    hiddenResourceTypes, hiddenRelationshipTypes, isUpdatingFromToggle, m)

\* C36: a message that fails to parse leaves the mirror, the filtered view and
\* the rendered scene unchanged, and the next well-formed message is processed
\* as it is from the page the failed message found.
C36_ParseFailureIsSkipped ==
    /\ [][ParseErrorStep =>
             UNCHANGED <<originalData, currentFilteredData, scene, hiddenResourceTypes,
                         hiddenRelationshipTypes, isUpdatingFromToggle>>]_vars
    /\ [][\A m \in PageMessages :
             (handled.path = "parse error" /\ Message(m)) =>
                 /\ isInitialized'
                 /\ handled'.path # "parse error"
                 /\ originalData' = AsHandled(m).page.mirror
                 /\ scene' = AsHandled(m).page.scene
                 /\ currentFilteredData' = AsHandled(m).page.view]_vars

\* a frame that did not parse reached a page that shows a pod of a mirror of
\* two nodes
C36_Witness ==
    /\ handled.path = "parse error"
    /\ Len(originalData.nodes) = 2
    /\ Len(scene.nodes) = 1
    /\ isInitialized

(***************************************************************************)
(* SpecConverge: the hub with its consumers and a cluster whose graph      *)
(* changes between fetches; every consumer's page applies the frames its   *)
(* writePump has written, in the order they were written.                  *)
(***************************************************************************)
\* the snapshots the collector returns: a service and the pod it exposes, with or
\* without a second pod that is exposed or not
ConvergeGraphs ==
    {MkGraph(<<UpdateService, MkNode("a-a", "pod", "Running", <<>>)>>,
             <<MkLink("a", "a-a", "exposes")>>),
     MkGraph(<<UpdateService, MkNode("a-a", "pod", "Running", <<>>), UpdateSecondPod>>,
             <<MkLink("a", "a-a", "exposes")>>),
     MkGraph(<<UpdateService, MkNode("a-a", "pod", "Running", <<>>), UpdateSecondPod>>,
             <<MkLink("a", "a-a", "exposes"), MkLink("a", "b", "exposes")>>)}

\* renderer.GetGraph followed by json.Unmarshal: an error, or a graph
ConvergeResults ==
    {[err |-> TRUE, graph |-> EmptyGraph]}
        \cup {[err |-> FALSE, graph |-> g] : g \in ConvergeGraphs}

\* the page after ws.onmessage has handled the frames in order, no legend item
\* being clicked
RECURSIVE pageAfter(_, _)
pageAfter(p, frames) ==
    IF frames = <<>> THEN p
    ELSE pageAfter(onmessageOnPage(p, HiddenByDefault, {}, FALSE, Head(frames)).page,
                   Tail(frames))

\* originalData of the page behind a connection
MirrorOf(c) ==
    pageAfter(Page(MkMirror(<<>>, <<>>), [nodes |-> <<>>, links |-> <<>>],
                   [nodes |-> <<>>, links |-> <<>>]),
              taken[c]).mirror

InitConverge == InitHub

NextConverge ==
    \/ \E c \in Clients : Register(c) /\ UNCHANGED <<trackerVars, clientVars, pageVars, socketVars, eqVars>>
    \/ \E c \in Clients : BootstrapFrom(c, ConvergeResults) /\ UNCHANGED <<trackerVars, clientVars, pageVars, socketVars, eqVars>>
    \/ \E c \in Clients : BootstrapDelete(c) /\ UNCHANGED <<trackerVars, clientVars, pageVars, socketVars, eqVars>>
    \/ TickFrom(ConvergeResults) /\ UNCHANGED <<clientVars, pageVars, socketVars, eqVars>>
    \/ Broadcast /\ UNCHANGED <<trackerVars, clientVars, pageVars, socketVars, eqVars>>
    \/ \E c \in Clients : WriteMessage(c) /\ UNCHANGED <<trackerVars, clientVars, pageVars, socketVars, eqVars>>
    \/ \E c \in Clients : WriteEnd(c) /\ UNCHANGED <<trackerVars, clientVars, pageVars, socketVars, eqVars>>

SpecConverge == InitConverge /\ [][NextConverge]_vars

(***************************************************************************)
(* Properties of hub and page together, checked under SpecConverge.        *)
(***************************************************************************)
\* the consumer is registered, its bootstrap message and every later message
\* enqueued for it have been written to its page, and neither its bootstrap nor
\* a tick is in flight
CaughtUp(c) ==
    /\ c \in clients
    /\ boot[c] = "done"
    /\ \E i \in DOMAIN enqueued[c] : enqueued[c][i].by = "bootstrap"
    /\ send[c].buf = <<>>
    /\ taken[c] = [i \in DOMAIN enqueued[c] |-> enqueued[c][i].msg]
    /\ pending.pc = "idle"
    /\ \A d \in Clients : boot[d] \in {"none", "done"}

\* the mirror has the node ids and the (source, target) pairs of the tracker's
\* previous state
InStep(mirror) ==
    /\ Ids_(mirror.nodes) = DOMAIN previousNodes
    /\ Pairs_(mirror.links) = {LinkRef(previousLinks[k]) : k \in DOMAIN previousLinks}

\* C37: for a consumer that stays registered, once it has applied in queue order
\* every message the hub enqueued for it and no tick or bootstrap is in flight,
\* the node-id set and link-key set of its mirror are those of the tracker's
\* previous state, also when the graph changed between the bootstrap fetch and
\* the tick fetches next to it.
C37_MirrorConverges ==
    \A c \in Clients : (CaughtUp(c) /\ held.valid) => InStep(MirrorOf(c))

\* C37 for a consumer whose last message came from a tick
C37_AfterATick ==
    \A c \in Clients :
        (/\ CaughtUp(c) /\ held.valid
         /\ enqueued[c][Len(enqueued[c])].by = "broadcast") => InStep(MirrorOf(c))

(***************************************************************************)
(* SpecMarshal: the hub with its consumers, a cluster that changes once,   *)
(* and a json.Marshal that can return an error.                            *)
(***************************************************************************)
\* the cluster as a fetch finds it after t ticks: a second pod and its link appear
\* after the first tick
ClusterAt(t) ==
    IF t = 0
    THEN MkGraph(<<UpdateService, MkNode("a-a", "pod", "Running", <<>>)>>,
                 <<MkLink("a", "a-a", "exposes")>>)
    ELSE MkGraph(<<UpdateService, MkNode("a-a", "pod", "Running", <<>>), UpdateSecondPod>>,
                 <<MkLink("a", "a-a", "exposes"), MkLink("a", "b", "exposes")>>)

\* renderer.GetGraph followed by json.Unmarshal: an error, or the cluster's graph
FetchAt(t) ==
    {[err |-> TRUE, graph |-> EmptyGraph], [err |-> FALSE, graph |-> ClusterAt(t)]}

\* the error value of deltaUpdate.ToJSON(): nil, or an error
MarshalErrs == {FALSE, TRUE}

InitMarshal == InitHub

NextMarshal ==
    \/ \E c \in Clients : Register(c) /\ UNCHANGED <<trackerVars, clientVars, pageVars, socketVars, eqVars>>
    \/ \E c \in Clients : BootstrapFrom(c, FetchAt(ticks)) /\ UNCHANGED <<trackerVars, clientVars, pageVars, socketVars, eqVars>>
    \/ \E c \in Clients : BootstrapDelete(c) /\ UNCHANGED <<trackerVars, clientVars, pageVars, socketVars, eqVars>>
    \/ TickWith(FetchAt(ticks), MarshalErrs) /\ UNCHANGED <<clientVars, pageVars, socketVars, eqVars>>
    \/ Broadcast /\ UNCHANGED <<trackerVars, clientVars, pageVars, socketVars, eqVars>>
    \/ \E c \in Clients : WriteMessage(c) /\ UNCHANGED <<trackerVars, clientVars, pageVars, socketVars, eqVars>>
    \/ \E c \in Clients : WriteEnd(c) /\ UNCHANGED <<trackerVars, clientVars, pageVars, socketVars, eqVars>>

SpecMarshal == InitMarshal /\ [][NextMarshal]_vars

(***************************************************************************)
(* Properties of a tick's update, checked under SpecMarshal.               *)
(***************************************************************************)
\* a tick whose GenerateDelta call returned an update and replaced the tracker's
\* previous state
TickComputedUpdate ==
    /\ ticks' = ticks + 1
    /\ lastTick'.fetched /\ ~lastTick'.fetchErr
    /\ ret'.kind = "update"
    /\ previousNodes' = updatePreviousState(arg').nodes

\* the update of every such tick is handed to the fan-out
C38_UpdateIsEnqueued ==
    [][TickComputedUpdate => (pending'.pc = "send" /\ pending'.msg = ToJSON(ret'))]_vars

\* once the last tick has fetched the cluster as it is, a consumer that has
\* applied everything queued for it holds the tracker's nodes and links
C38_NoChangeMissing ==
    \A c \in Clients :
        (/\ CaughtUp(c)
         /\ ticks >= 2 /\ lastTick.fetched /\ ~lastTick.fetchErr) => InStep(MirrorOf(c))

\* C38: no computed change is dropped by the hub: whenever a tick's GenerateDelta
\* call returns an update and advances the tracker's previous state, that update
\* is enqueued for fan-out; a tick abandoned after delta generation does not leave
\* registered consumers without that change for good.
C38_NoChangeDropped == C38_UpdateIsEnqueued /\ []C38_NoChangeMissing

\* C38 for the ticks whose update was serialized
C38_WhenMarshalSucceeds ==
    [][(TickComputedUpdate /\ lastTick'.outcome # "marshal failed")
          => (pending'.pc = "send" /\ pending'.msg = ToJSON(ret'))]_vars

(***************************************************************************)
(* Properties of messages handled during a legend toggle, checked under    *)
(* SpecPage.                                                               *)
(***************************************************************************)
\* the toggle flag was cleared right after a message whose graph update was
\* skipped, and nothing has happened since
SkippedThenCleared ==
    /\ handled = Handled("toggle timer", "", "after a skipped message")
    /\ ~isUpdatingFromToggle

\* C39: the changes of a message that arrives while a legend toggle is in
\* progress are applied to the mirror and are not lost to the view: after the
\* toggle flag clears and the next delta is processed, the rendered node ids and
\* link keys are those of filterGraphData applied to the mirror.
C39_SkippedChangesReachTheView ==
    [][\A m \in PageMessages :
          (SkippedThenCleared /\ DeltaStep(m)) => SceneFollowsMirror]_vars

\* C39 for a mirror whose links hold ids and have both endpoints in the mirror
C39_WhenMirrorWellFormed ==
    [][\A m \in PageMessages :
          (/\ SkippedThenCleared /\ DeltaStep(m)
           /\ EndpointsAreIds(originalData) /\ NoDangling(originalData)
           /\ EndpointsAreIds(originalData') /\ NoDangling(originalData'))
              => SceneFollowsMirror]_vars

\* C39, the part about the mirror: a message handled during a toggle leaves the
\* mirror as the same message leaves it when no toggle is in progress
C39_MirrorTakesSkippedMessage ==
    [][\A m \in PageMessages :
          (isUpdatingFromToggle /\ Message(m)) =>
              LET r == onmessageOnPage(Page(originalData, scene, currentFilteredData),
                           hiddenResourceTypes, hiddenRelationshipTypes, FALSE, m)
              IN /\ Ids_(originalData'.nodes) = Ids_(r.page.mirror.nodes)
                 /\ Pairs_(originalData'.links) = Pairs_(r.page.mirror.links)
                 /\ scene' = scene]_vars

(***************************************************************************)
(* Properties of the mirror's shape, checked under SpecPage.               *)
(***************************************************************************)
\* the mirror is a graph: an object with a node collection and a link collection
WellFormed(mirror) == ~mirror.null /\ {"nodes", "links"} \subseteq mirror.keys

\* the "full" message of a graph with no nodes and no links: both fields are
\* left out of its serialized form
EmptyFull(m) == m.type = "full" /\ m.present \cap {"nodes", "links"} = {}

\* C40: the mirror is always a well-formed graph with a node collection and a
\* link collection: a "full" message for a graph with no nodes and no links
\* leaves the mirror as the empty graph, and the deltas received afterwards are
\* applied to it.
C40_MirrorIsAlwaysAGraph ==
    /\ []WellFormed(originalData)
    /\ [][\A m \in PageMessages :
             (EmptyFull(m) /\ Message(m)) =>
                 /\ WellFormed(originalData')
                 /\ originalData'.nodes = <<>> /\ originalData'.links = <<>>]_vars
    /\ [][\A m \in PageMessages :
             (m.type = "delta" /\ Message(m)) => handled'.path # "delta threw"]_vars

\* C40 for the messages that carry both collections: the mirror they leave is
\* well formed
C40_WhenBothCollectionsPresent ==
    [][\A m \in PageMessages :
          (/\ m.type = "full" /\ {"nodes", "links"} \subseteq m.present
           /\ Message(m)) => WellFormed(originalData')]_vars

\* a delta that adds nodes was dropped because the mirror has no collections
C40_DeltaDropped ==
    /\ handled = Handled("message", "delta", "delta threw")
    /\ ~WellFormed(originalData)

====
